---- MODULE Spec2Model ----
(***************************************************************************)
(* A model of the aicleaner repository: the disclaimer remover             *)
(* (text_cleaner.py), the writing-style profiler with its persisted        *)
(* profile, the humanizer (style_analyzer.py), and the request handlers    *)
(* of the web application (app.py).                                        *)
(*                                                                         *)
(* Texts are sequences of one-character strings, so that the regular       *)
(* expressions of the source are matched character by character, with the  *)
(* priorities of a backtracking matcher (Python's re module).              *)
(***************************************************************************)
EXTENDS Integers, Sequences, FiniteSets, TLC

VARIABLES
    text,           \* the argument of the current clean_text or humanize_text call
    cleaned,        \* the value clean_text returned
    phase,          \* the position of the run, see each specification
    style_profile,  \* WritingStyleAnalyzer.style_profile
    samples,        \* history: the samples analyzed so far, in call order
    profile_file,   \* the file at the profile path: Missing, Malformed or a JSON document
    raised,         \* TRUE when a call ended with an exception that nothing caught
    summary,        \* what get_style_summary returned on the saving analyzer
    loaded_summary, \* what get_style_summary returned on a new analyzer after load_profile
    humanized,      \* the value humanize_text returned
    draws,          \* the random draws of that humanize_text call
    backend,        \* what the ollama package does in this run: absent, or the outcome of each chat call
    response,       \* the response of the /scottify request
    personas_file,  \* the file at PERSONAS_PATH: Missing or the saved dictionary
    uuids,          \* the number of ids uuid.uuid4() has issued
    requests        \* the requests the server is handling: their input, position and locals

cleanerVars  == <<text, cleaned>>
persistVars  == <<profile_file, raised, summary, loaded_summary>>
humanizeVars == <<humanized, draws>>
appVars      == <<backend, response, personas_file, uuids, requests>>

vars == <<text, cleaned, phase, style_profile, samples,
          profile_file, raised, summary, loaded_summary, humanized, draws,
          backend, response, personas_file, uuids, requests>>

(***************************************************************************)
(* Characters                                                              *)
(***************************************************************************)
UpperSeq == <<"A","B","C","D","E","F","G","H","I","J","K","L","M",
              "N","O","P","Q","R","S","T","U","V","W","X","Y","Z">>
LowerSeq == <<"a","b","c","d","e","f","g","h","i","j","k","l","m",
              "n","o","p","q","r","s","t","u","v","w","x","y","z">>
DigitSeq == <<"0","1","2","3","4","5","6","7","8","9">>

Range(s) == {s[i] : i \in DOMAIN s}

UpperSet == Range(UpperSeq)
LowerSet == Range(LowerSeq)
DigitSet == Range(DigitSeq)
NL == "\n"
\* The backtick character (the string syntax of TLA+ has no backtick, so the
\* character is named).
BackTick == "<backtick>"
SpaceSet == {" ", "\t", NL}

LowerOf == [c \in UpperSet |-> LowerSeq[CHOOSE i \in 1..26 : UpperSeq[i] = c]]

\* str.lower() on one character
LowerChar(c) == IF c \in UpperSet THEN LowerOf[c] ELSE c

\* str.lower()
Lower(s) == [i \in DOMAIN s |-> LowerChar(s[i])]

\* \w of the re module
IsWordChar(c) == c \in UpperSet \/ c \in LowerSet \/ c \in DigitSet \/ c = "_"

\* Regular expressions.  A pattern is a sequence of items; an item is a
\* record [t, c, s, a, lo, hi]:
\*   t = "lit"   the literal string s
\*   t = "rep"   between lo and hi characters of class c, greedy
\*               (hi = -1: unbounded)
\*   t = "lazy"  any number of characters of class c, as few as possible
\*   t = "alt"   a non-capturing alternative of the literal strings a[i]
\*   t = "look"  a lookahead for one of the patterns a[i]
\*   t = "bol"   start of line, t = "eol" end of line (re.MULTILINE),
\*   t = "wb"    word boundary
\* Classes: "any" (dot), "space", "nonspace", "digit", "word", "alpha"
\* (a-zA-Z), "upper" (A-Z), "blank"
\* (space or tab), "notrpar" (all but a right parenthesis), "notrbrk" (all
\* but a right bracket), "bullet" (minus, star, plus), "sent" (full stop,
\* exclamation mark, question mark), or "=x" for the single character x.
\* Flags: [i |-> re.IGNORECASE, s |-> re.DOTALL].
Item(t, c, s, a, lo, hi) == [t |-> t, c |-> c, s |-> s, a |-> a, lo |-> lo, hi |-> hi]
Lit(s)        == Item("lit", "", s, <<>>, 0, 0)
Rep(c, lo, hi) == Item("rep", c, <<>>, <<>>, lo, hi)
Star(c)       == Rep(c, 0, -1)
Plus(c)       == Rep(c, 1, -1)
Opt(c)        == Rep(c, 0, 1)
One(c)        == Rep(c, 1, 1)
Lazy(c)       == Item("lazy", c, <<>>, <<>>, 0, -1)
Alt(a)        == Item("alt", "", <<>>, a, 0, 0)
Look(a)       == Item("look", "", <<>>, a, 0, 0)
Bol           == Item("bol", "", <<>>, <<>>, 0, 0)
Eol           == Item("eol", "", <<>>, <<>>, 0, 0)
Wb            == Item("wb", "", <<>>, <<>>, 0, 0)

FlagsIMS == [i |-> TRUE,  s |-> TRUE]    \* re.IGNORECASE | re.MULTILINE | re.DOTALL
FlagsM   == [i |-> FALSE, s |-> FALSE]   \* re.MULTILINE, or no flag when the pattern has no anchor

InClass(c, ch, fl) ==
    CASE c = "any"     -> fl.s \/ ch # NL
      [] c = "space"   -> ch \in SpaceSet
      [] c = "digit"   -> ch \in DigitSet
      [] c = "word"    -> IsWordChar(ch)
      [] c = "upper"   -> ch \in UpperSet \/ (fl.i /\ ch \in LowerSet)
      [] c = "blank"   -> ch \in {" ", "\t"}
      [] c = "notrpar" -> ch # ")"
      [] c = "notrbrk" -> ch # "]"
      [] c = "bullet"  -> ch \in {"-", "*", "+"}
      [] c = "sent"    -> ch \in {".", "!", "?"}
      [] c = "alpha"   -> ch \in UpperSet \/ ch \in LowerSet
      [] c = "nonspace" -> ch \notin SpaceSet
      [] c = "=bt"     -> ch = BackTick
      [] c = "=#"      -> ch = "#"
      [] c = "=,"      -> ch = ","
      [] c = "=nl"     -> ch = NL
      [] OTHER         -> FALSE

SameChar(a, b, fl) == IF fl.i THEN LowerChar(a) = LowerChar(b) ELSE a = b

\* Does txt hold the literal s at position pos?
LitAt(s, txt, pos, fl) ==
    /\ pos + Len(s) - 1 <= Len(txt)
    /\ \A k \in 1..Len(s) : SameChar(txt[pos + k - 1], s[k], fl)

AtBol(txt, pos) == pos = 1 \/ txt[pos - 1] = NL
AtEol(txt, pos) == pos = Len(txt) + 1 \/ txt[pos] = NL
AtWb(txt, pos) ==
    LET before == pos > 1 /\ IsWordChar(txt[pos - 1])
        after  == pos <= Len(txt) /\ IsWordChar(txt[pos])
    IN  before # after

\* F applied to the value of v (v is evaluated once, and F sees the value)
Bind(v, F(_)) == CHOOSE r \in {F(x) : x \in {v}} : TRUE

\* The least element of p..q that satisfies P (there is one)
First(p, q, P(_)) == CHOOSE x \in p..q : P(x) /\ \A y \in p..(x - 1) : ~P(y)
\* The greatest one
Last(p, q, P(_)) == p + q - First(p, q, LAMBDA i : P(p + q - i))

\* The first position from pos on that holds no character of class c
Extent(c, txt, pos, fl) ==
    First(pos, Len(txt) + 1, LAMBDA q : q = Len(txt) + 1 \/ ~InClass(c, txt[q], fl))

\* No match (positions are 1, 2, ...)
NoMatch == 0

\* The position after the match of items k.. of pattern re at pos, by the
\* priorities of a backtracking matcher; NoMatch when there is none.  A
\* greedy repetition takes the longest run after which the rest matches, a
\* lazy one the shortest, an alternative the first branch after which the
\* rest matches.
RECURSIVE MatchFrom(_, _, _, _, _)
MatchFrom(re, k, txt, pos, fl) ==
    IF k > Len(re) THEN pos
    ELSE
      CASE re[k].t = "bol" ->
             IF AtBol(txt, pos) THEN MatchFrom(re, k + 1, txt, pos, fl) ELSE NoMatch
        [] re[k].t = "eol" ->
             IF AtEol(txt, pos) THEN MatchFrom(re, k + 1, txt, pos, fl) ELSE NoMatch
        [] re[k].t = "wb" ->
             IF AtWb(txt, pos) THEN MatchFrom(re, k + 1, txt, pos, fl) ELSE NoMatch
        [] re[k].t = "lit" ->
             IF LitAt(re[k].s, txt, pos, fl)
             THEN MatchFrom(re, k + 1, txt, pos + Len(re[k].s), fl)
             ELSE NoMatch
        [] re[k].t = "rep" ->
             Bind(Extent(re[k].c, txt, pos, fl), LAMBDA run :
               Bind(IF re[k].hi = -1 \/ pos + re[k].hi > run THEN run ELSE pos + re[k].hi,
                 LAMBDA hi :
                   IF pos + re[k].lo > hi THEN NoMatch
                   ELSE Bind(Last(pos + re[k].lo - 1, hi,
                                  LAMBDA q : \/ q = pos + re[k].lo - 1
                                             \/ MatchFrom(re, k + 1, txt, q, fl) # NoMatch),
                             LAMBDA q : IF q = pos + re[k].lo - 1 THEN NoMatch
                                        ELSE MatchFrom(re, k + 1, txt, q, fl))))
        [] re[k].t = "lazy" ->
             Bind(Extent(re[k].c, txt, pos, fl), LAMBDA run :
               Bind(First(pos, run + 1,
                          LAMBDA q : \/ q = run + 1
                                     \/ MatchFrom(re, k + 1, txt, q, fl) # NoMatch),
                    LAMBDA q : IF q = run + 1 THEN NoMatch
                               ELSE MatchFrom(re, k + 1, txt, q, fl)))
        [] re[k].t = "alt" ->
             Bind(First(1, Len(re[k].a) + 1,
                        LAMBDA j : \/ j = Len(re[k].a) + 1
                                   \/ /\ LitAt(re[k].a[j], txt, pos, fl)
                                      /\ MatchFrom(re, k + 1, txt, pos + Len(re[k].a[j]), fl) # NoMatch),
                  LAMBDA j : IF j = Len(re[k].a) + 1 THEN NoMatch
                             ELSE MatchFrom(re, k + 1, txt, pos + Len(re[k].a[j]), fl))
        [] re[k].t = "look" ->
             IF \E j \in DOMAIN re[k].a : MatchFrom(re[k].a[j], 1, txt, pos, fl) # NoMatch
             THEN MatchFrom(re, k + 1, txt, pos, fl)
             ELSE NoMatch
        [] OTHER -> NoMatch

\* pattern.match(txt, pos): the end of the match at pos, or NoMatch
MatchAt(re, txt, pos, fl) == MatchFrom(re, 1, txt, pos, fl)

\* The positions of txt where the first item of re can match (a necessary
\* condition for a match of re there)
Candidates(re, txt, fl) ==
    CASE re[1].t = "bol" -> { p \in 1..(Len(txt) + 1) : AtBol(txt, p) }
      [] re[1].t = "lit" -> { p \in 1..(Len(txt) + 1) : LitAt(re[1].s, txt, p, fl) }
      [] OTHER           -> 1..(Len(txt) + 1)

\* The matches of re at every position of txt: the set of the spans
\* <<start, end>> (end exclusive)
Hits(re, txt, fl) ==
    Bind(<<re, txt, fl>>, LAMBDA a :
      { <<p, MatchAt(a[1], a[2], p, a[3])>> :
          p \in { q \in Candidates(a[1], a[2], a[3]) : MatchAt(a[1], a[2], q, a[3]) # NoMatch } })

\* The scan of re.finditer over the hits: the leftmost span that starts at pos
\* or later, then on from its end.  (After an empty match the scan moves on
\* by one character.)
RECURSIVE ScanFrom(_, _)
ScanFrom(hits, pos) ==
    IF \A h \in hits : h[1] < pos THEN <<>>
    ELSE Bind(CHOOSE h \in hits : h[1] >= pos /\ \A g \in hits : g[1] >= pos => h[1] <= g[1],
              LAMBDA h : <<h>> \o ScanFrom(hits, IF h[2] = h[1] THEN h[1] + 1 ELSE h[2]))

\* re.finditer: the spans of the non-overlapping matches, leftmost first
FindIter(re, txt, fl) == Bind(Hits(re, txt, fl), LAMBDA hits : ScanFrom(hits, 1))

\* txt[:a] + rep + txt[b:]  (positions 1-based, b exclusive)
Splice(txt, a, b, rep) == SubSeq(txt, 1, a - 1) \o rep \o SubSeq(txt, b, Len(txt))

\* txt with each of the spans sp[k..] replaced by rep; from is the end of the
\* span before sp[k]
RECURSIVE ReplaceSpans(_, _, _, _, _)
ReplaceSpans(txt, sp, k, from, rep) ==
    IF k > Len(sp) THEN SubSeq(txt, from, Len(txt))
    ELSE SubSeq(txt, from, sp[k][1] - 1) \o rep \o ReplaceSpans(txt, sp, k + 1, sp[k][2], rep)

\* re.sub(pattern, rep, txt)
ReSub(re, rep, txt, fl) ==
    Bind(FindIter(re, txt, fl), LAMBDA sp : ReplaceSpans(txt, sp, 1, 1, rep))

\* pattern.sub('', txt)
ReDelete(re, txt, fl) == ReSub(re, <<>>, txt, fl)

\* re.search(pattern, txt) is not None
ReSearch(re, txt, fl) == \E p \in 1..(Len(txt) + 1) : MatchAt(re, txt, p, fl) # NoMatch

\* The characters of a string
Chars(s) == [i \in 1..Len(s) |-> SubSeq(s, i, i)] \o <<>>

\* txt.startswith(old, i - 1)
StartsAt(txt, old, i) ==
    /\ i + Len(old) - 1 <= Len(txt)
    /\ \A k \in 1..Len(old) : txt[i + k - 1] = old[k]

\* str.find(old, pos): the first index from pos on, 0 when there is none
Find(txt, old, pos) ==
    Bind(First(pos, Len(txt) + 2, LAMBDA i : i = Len(txt) + 2 \/ StartsAt(txt, old, i)),
         LAMBDA i : IF i = Len(txt) + 2 THEN 0 ELSE i)

\* old in txt
Contains(txt, old) == \E i \in 1..(Len(txt) + 1) : StartsAt(txt, old, i)

\* txt[pos:].replace(old, new): every non-overlapping occurrence, leftmost first
RECURSIVE ReplaceFrom(_, _, _, _)
ReplaceFrom(txt, old, new, pos) ==
    Bind(Find(txt, old, pos), LAMBDA i :
      IF i = 0 THEN SubSeq(txt, pos, Len(txt))
      ELSE SubSeq(txt, pos, i - 1) \o new \o ReplaceFrom(txt, old, new, i + Len(old)))

\* str.replace(old, new), for a non-empty old
StrReplace(txt, old, new) == ReplaceFrom(txt, old, new, 1)

\* str.split(sep) from position pos on, for a non-empty sep
RECURSIVE SplitFrom(_, _, _)
SplitFrom(txt, sep, pos) ==
    Bind(Find(txt, sep, pos), LAMBDA i :
      IF i = 0 THEN <<SubSeq(txt, pos, Len(txt))>>
      ELSE <<SubSeq(txt, pos, i - 1)>> \o SplitFrom(txt, sep, i + Len(sep)))

\* str.split(sep)
Split(txt, sep) == SplitFrom(txt, sep, 1)

\* str.strip()
Strip(txt) ==
    IF \A i \in DOMAIN txt : txt[i] \in SpaceSet THEN <<>>
    ELSE SubSeq(txt, First(1, Len(txt), LAMBDA i : txt[i] \notin SpaceSet),
                     Last(1, Len(txt), LAMBDA i : txt[i] \notin SpaceSet))

\* str.count(old): the non-overlapping occurrences from pos on
RECURSIVE CountFrom(_, _, _)
CountFrom(txt, old, pos) ==
    Bind(Find(txt, old, pos), LAMBDA i :
      IF i = 0 THEN 0 ELSE 1 + CountFrom(txt, old, i + Len(old)))

\* str.count(old)
StrCount(txt, old) == CountFrom(txt, old, 1)

\* sep.join(parts)
RECURSIVE Join(_, _)
Join(sep, parts) ==
    IF parts = <<>> THEN <<>>
    ELSE IF Len(parts) = 1 THEN parts[1]
    ELSE parts[1] \o sep \o Join(sep, Tail(parts))

\* re.findall(re, txt): the matched substrings, in order
FindAll(re, txt, fl) ==
    Bind(FindIter(re, txt, fl), LAMBDA sp :
      [k \in 1..Len(sp) |-> SubSeq(txt, sp[k][1], sp[k][2] - 1)] \o <<>>)

\* re.split(re, txt) for the matches sp[k..], the text before them starting at from
RECURSIVE SplitAt(_, _, _, _)
SplitAt(txt, sp, k, from) ==
    IF k > Len(sp) THEN <<SubSeq(txt, from, Len(txt))>>
    ELSE <<SubSeq(txt, from, sp[k][1] - 1)>> \o SplitAt(txt, sp, k + 1, sp[k][2])

\* re.split(re, txt), for a pattern without groups that matches no empty string
ReSplit(re, txt, fl) == Bind(FindIter(re, txt, fl), LAMBDA sp : SplitAt(txt, sp, 1, 1))

\* str.split(): the maximal runs of non-whitespace characters
SplitWords(txt) == FindAll(<<Plus("nonspace")>>, txt, FlagsM)

\* [s.strip() for s in parts if s.strip()]
StrippedNonEmpty(parts) ==
    Bind([k \in 1..Len(parts) |-> Strip(parts[k])] \o <<>>,
         LAMBDA stripped : SelectSeq(stripped, LAMBDA x : x # <<>>))

\* str(n) for n >= 0
RECURSIVE Digits(_)
Digits(n) == IF n < 10 THEN <<DigitSeq[n + 1]>> ELSE Digits(n \div 10) \o <<DigitSeq[(n % 10) + 1]>>

(***************************************************************************)
(* text_cleaner.py: AIWatermarkRemover                                     *)
(***************************************************************************)
\* The tail of the line-anchored rules: .*?(?=\n\n|\n[A-Z]|$)
UntilBreak ==
    << Lazy("any"),
       Look(<< <<Lit(<<NL, NL>>)>>, <<Lit(<<NL>>), One("upper")>>, <<Eol>> >>) >>

\* ^phrase\b.*?(?=\n\n|\n[A-Z]|$)
LineRule(phrase) == <<Bol>> \o phrase \o <<Wb>> \o UntilBreak

\* ^phrase,?\s+but\b.*?(?=\n\n|\n[A-Z]|$)
ButRule(phrase) == LineRule(<<Lit(Chars(phrase)), Opt("=,"), Plus("space"), Lit(Chars("but"))>>)

PhraseRule(phrase) == LineRule(<<Lit(Chars(phrase))>>)

\* _compile_patterns: the rules, in order (all compiled with
\* re.IGNORECASE | re.MULTILINE | re.DOTALL)
watermark_patterns ==
    << PhraseRule("As an AI"),
       PhraseRule("I'm an AI"),
       PhraseRule("I am an AI"),
       PhraseRule("As a language model"),
       PhraseRule("As an artificial intelligence"),
       PhraseRule("I don't have"),
       PhraseRule("I cannot"),
       PhraseRule("I'm not able to"),
       PhraseRule("I don't have personal"),
       PhraseRule("I should mention that"),
       PhraseRule("I should note that"),
       PhraseRule("It's important to note"),
       PhraseRule("Please note that"),
       ButRule("I apologize"),
       ButRule("I'm sorry"),
       ButRule("Sorry"),
       PhraseRule("Please consult"),
       PhraseRule("You should consult"),
       \* ^This is not\b.*?advice.*?(?=\n\n|\n[A-Z]|$)
       <<Bol, Lit(Chars("This is not")), Wb, Lazy("any"), Lit(Chars("advice"))>> \o UntilBreak,
       PhraseRule("Always consult"),
       \* \s*\(As an AI[^)]*\)
       <<Star("space"), Lit(Chars("(As an AI")), Star("notrpar"), Lit(Chars(")"))>>,
       \* \s*\[As an AI[^\]]*\]
       <<Star("space"), Lit(Chars("[As an AI")), Star("notrbrk"), Lit(Chars("]"))>>,
       \* \s*--\s*As an AI\b.*?(?=\n|$)
       <<Star("space"), Lit(Chars("--")), Star("space"), Lit(Chars("As an AI")), Wb,
         Lazy("any"), Look(<< <<Lit(<<NL>>)>>, <<Eol>> >>)>>,
       \* \n\n.*?(?:please consult|seek professional|not intended as).*?advice.*?$
       <<Lit(<<NL, NL>>), Lazy("any"),
         Alt(<<Chars("please consult"), Chars("seek professional"), Chars("not intended as")>>),
         Lazy("any"), Lit(Chars("advice")), Lazy("any"), Eol>>,
       \* \n\n.*?(?:I'm an AI|as an AI).*?$
       <<Lit(<<NL, NL>>), Lazy("any"),
         Alt(<<Chars("I'm an AI"), Chars("as an AI")>>), Lazy("any"), Eol>> >>

\* _preserve_formatting_markers: the markdown patterns, in order (matched
\* with re.MULTILINE only)
markdown_patterns ==
    << <<Lit(Chars("**")), Lazy("any"), Lit(Chars("**"))>>,                 \* BOLD
       <<Lit(Chars("*")), Lazy("any"), Lit(Chars("*"))>>,                   \* ITALIC
       <<One("=bt"), Lazy("any"), One("=bt")>>,                             \* CODE
       <<Rep("=bt", 3, 3), Lazy("any"), Rep("=bt", 3, 3)>>,                 \* CODEBLOCK
       <<Rep("=#", 1, 6), Plus("space"), Lazy("any"),
         Look(<< <<Lit(<<NL>>)>>, <<Eol>> >>)>>,                            \* HEADER
       <<Bol, Star("space"), One("bullet"), Plus("space")>>,                \* BULLET
       <<Bol, Star("space"), Plus("digit"), Lit(Chars(".")), Plus("space")>> >> \* NUMBER

\* f"__FORMAT_{counter}__"
Placeholder(counter) == Chars("__FORMAT_") \o Digits(counter) \o Chars("__")

\* The inner loop of _preserve_formatting_markers: the state after the matches
\* sp[k..] of one pattern, taken last first.  st = [txt |-> processed_text, map |-> formatting_map];
\* the map is the sequence of the recorded spans, map[c + 1] for __FORMAT_c__
\* (counter = Len(map)).
RECURSIVE ShieldSpans(_, _, _)
ShieldSpans(st, sp, k) ==
    IF k > Len(sp) THEN st
    ELSE Bind(ShieldSpans(st, sp, k + 1), LAMBDA prev :
           [txt |-> Splice(prev.txt, sp[k][1], sp[k][2], Placeholder(Len(prev.map))),
            map |-> Append(prev.map, SubSeq(prev.txt, sp[k][1], sp[k][2] - 1))])

\* One pattern of the outer loop: re.finditer on the current text
ShieldPattern(st, re) ==
    Bind(FindIter(re, st.txt, FlagsM), LAMBDA sp : ShieldSpans(st, sp, 1))

\* The outer loop: the state after the first j patterns
RECURSIVE ShieldUpTo(_, _, _)
ShieldUpTo(txt, patterns, j) ==
    IF j = 0 THEN [txt |-> txt, map |-> <<>>]
    ELSE Bind(ShieldUpTo(txt, patterns, j - 1), LAMBDA st : ShieldPattern(st, patterns[j]))

_preserve_formatting_markers(txt) ==
    Bind(markdown_patterns, LAMBDA patterns : ShieldUpTo(txt, patterns, Len(patterns)))

\* _restore_formatting_markers: the placeholders in the order they were recorded
\* (the text after the first c placeholders)
RECURSIVE RestoreUpTo(_, _, _)
RestoreUpTo(txt, map, c) ==
    IF c = 0 THEN txt
    ELSE Bind(RestoreUpTo(txt, map, c - 1),
              LAMBDA restored : StrReplace(restored, Placeholder(c - 1), map[c]))

_restore_formatting_markers(txt, map) == RestoreUpTo(txt, map, Len(map))

\* the loop of clean_text over the watermark patterns
\* (the text after the first j patterns)
RECURSIVE RemoveUpTo(_, _, _)
RemoveUpTo(txt, patterns, j) ==
    IF j = 0 THEN txt
    ELSE Bind(RemoveUpTo(txt, patterns, j - 1),
              LAMBDA processed : ReDelete(patterns[j], processed, FlagsIMS))

RemoveWatermarks(txt) ==
    Bind(watermark_patterns, LAMBDA patterns : RemoveUpTo(txt, patterns, Len(patterns)))

_clean_whitespace(txt) ==
    Bind(ReSub(<<Lit(<<NL>>), Star("space"), Lit(<<NL>>), Star("space"), Plus("=nl")>>,
               <<NL, NL>>, txt, FlagsM),
         LAMBDA t1 : Bind(ReSub(<<Plus("blank"), Eol>>, <<>>, t1, FlagsM),
                          LAMBDA t2 : Strip(t2)))

clean_text(txt) ==
    IF txt = <<>> \/ Strip(txt) = <<>> THEN txt
    ELSE Bind(_preserve_formatting_markers(txt), LAMBDA st :
           Bind(RemoveWatermarks(st.txt), LAMBDA removed :
             Bind(_clean_whitespace(removed), LAMBDA processed :
               _restore_formatting_markers(processed, st.map))))

(***************************************************************************)
(* style_analyzer.py: WritingStyleAnalyzer                                 *)
(*                                                                         *)
(* A dictionary is a function from its keys; the order in which its keys   *)
(* were inserted is kept beside it, in the field key_order of the profile. *)
(* A quotient (a Python float) is the exact fraction in lowest terms.      *)
(***************************************************************************)
RECURSIVE GCD(_, _)
GCD(a, b) == IF b = 0 THEN a ELSE GCD(b, a % b)

\* n / d, for n >= 0 and d > 0
Frac(n, d) == [num |-> n \div GCD(n, d), den |-> d \div GCD(n, d)]

RECURSIVE Sum(_)
Sum(ns) == IF ns = <<>> THEN 0 ELSE Head(ns) + Sum(Tail(ns))

\* statistics.mean(ns), for a non-empty ns
Mean(ns) == Frac(Sum(ns), Len(ns))

\* The concatenation of the lists of a list
RECURSIVE Flatten(_)
Flatten(lists) == IF lists = <<>> THEN <<>> ELSE Head(lists) \o Flatten(Tail(lists))

\* {}
EmptyDict == [k \in {} |-> 0]

\* d.get(k, 0)
Get(d, k) == IF k \in DOMAIN d THEN d[k] ELSE 0

\* Counter(items): the number of occurrences of each item
Counter(items) ==
    [x \in Range(items) |-> Cardinality({k \in DOMAIN items : items[k] = x})]

\* d.update(e): the entries of e replace those of d
Update(d, e) ==
    [k \in DOMAIN d \cup DOMAIN e |-> IF k \in DOMAIN e THEN e[k] ELSE d[k]]

\* d[k] = d.get(k, 0) + e[k], for every key k of e
AddCounts(d, e) == [k \in DOMAIN d \cup DOMAIN e |-> Get(d, k) + Get(e, k)]

\* The keys of a dictionary in insertion order, after the keys ks were
\* assigned to in this order: a new key goes to the end
RECURSIVE AppendNew(_, _)
AppendNew(order, ks) ==
    IF ks = <<>> THEN order
    ELSE AppendNew(IF Head(ks) \in Range(order) THEN order ELSE Append(order, Head(ks)),
                   Tail(ks))

\* WritingStyleAnalyzer.__init__
EmptyProfile ==
    [ sentence_lengths     |-> <<>>,
      paragraph_lengths    |-> <<>>,
      common_words         |-> EmptyDict,
      common_phrases       |-> EmptyDict,
      punctuation_patterns |-> EmptyDict,
      sentence_starters    |-> EmptyDict,
      transition_words     |-> EmptyDict,
      tone_indicators      |-> EmptyDict,
      contractions_usage   |-> Frac(0, 1),
      passive_voice_usage  |-> Frac(0, 1),
      avg_sentence_length  |-> Frac(0, 1),
      vocabulary_complexity |-> Frac(0, 1),
      personal_expressions |-> <<>>,
      key_order |-> [ common_words         |-> <<>>,
                      common_phrases       |-> <<>>,
                      punctuation_patterns |-> <<>>,
                      sentence_starters    |-> <<>>,
                      transition_words     |-> <<>>,
                      tone_indicators      |-> <<>> ] ]

\* re.sub(r'\n\s*\n', '\n\n', text); re.sub(r'[ \t]+', ' ', text); strip
_clean_text(txt) ==
    Bind(ReSub(<<Lit(<<NL>>), Star("space"), Lit(<<NL>>)>>, <<NL, NL>>, txt, FlagsM),
         LAMBDA t1 : Bind(ReSub(<<Plus("blank")>>, <<" ">>, t1, FlagsM),
                          LAMBDA t2 : Strip(t2)))

\* re.split(r'[.!?]+', text), stripped, without the empty pieces
_extract_sentences(txt) == StrippedNonEmpty(ReSplit(<<Plus("sent")>>, txt, FlagsM))

\* text.split('\n\n'), stripped, without the empty pieces
_extract_paragraphs(txt) == StrippedNonEmpty(Split(txt, <<NL, NL>>))

\* [len(x.split()) for x in parts]
WordCounts(parts) == [k \in 1..Len(parts) |-> Len(SplitWords(parts[k]))] \o <<>>

\* For every sentence with a word, its first word, lowercased
StarterWords(sentences) ==
    Bind(SelectSeq([k \in 1..Len(sentences) |-> SplitWords(sentences[k])] \o <<>>,
                   LAMBDA words : words # <<>>),
         LAMBDA ws : [k \in 1..Len(ws) |-> Lower(ws[k][1])] \o <<>>)

\* The dictionary starters: the first words, counted
Starters(sentences) == Counter(StarterWords(sentences))

\* The mean over all the sentence lengths recorded so far, those of the
\* current sample included
AvgOverAllSentences(profile, lengths) ==
    IF lengths # <<>> THEN Mean(profile.sentence_lengths \o lengths)
    ELSE profile.avg_sentence_length

\* avg_sentence_length after a sample with these sentence lengths
AvgSentenceLength(profile, lengths) ==
    IF lengths # <<>> THEN Mean(lengths) ELSE profile.avg_sentence_length

\* sentence_starters after a sample with these starters
SentenceStarters(profile, starters) == Update(profile.sentence_starters, starters)

_analyze_sentence_structure(profile, sentences) ==
    Bind(WordCounts(sentences), LAMBDA lengths :
      [profile EXCEPT !.sentence_lengths = @ \o lengths,
                      !.avg_sentence_length = AvgSentenceLength(profile, lengths),
                      !.sentence_starters = SentenceStarters(profile, Starters(sentences)),
                      !.key_order.sentence_starters = AppendNew(@, StarterWords(sentences))])

\* The words that are never counted as common words
StopWords ==
    { Chars(w) : w \in {"the", "a", "an", "and", "or", "but", "in", "on", "at", "to",
                        "for", "of", "with", "by"} }

\* The number of words most_common returns
MostCommonLimit == 50

\* The keys of Counter(items).most_common(n): by falling count, equal counts
\* in the order of first occurrence
MostCommon(items, n) ==
    Bind(Counter(items), LAMBDA cnt :
      { x \in DOMAIN cnt :
          Cardinality({ y \in DOMAIN cnt :
                          \/ cnt[y] > cnt[x]
                          \/ /\ cnt[y] = cnt[x]
                             /\ First(1, Len(items), LAMBDA k : items[k] = y)
                                  < First(1, Len(items), LAMBDA k : items[k] = x) }) < n })

\* Counter(items).most_common(n) as a list of keys
MostCommonOrder(items, n) ==
    Bind(Counter(items), LAMBDA cnt :
      Bind([x \in DOMAIN cnt |->
              Cardinality({ y \in DOMAIN cnt :
                              \/ cnt[y] > cnt[x]
                              \/ /\ cnt[y] = cnt[x]
                                 /\ First(1, Len(items), LAMBDA k : items[k] = y)
                                      < First(1, Len(items), LAMBDA k : items[k] = x) })],
           LAMBDA rank :
             [r \in 1..Cardinality({x \in DOMAIN cnt : rank[x] < n}) |->
                CHOOSE x \in DOMAIN cnt : rank[x] = r - 1] \o <<>>))

\* all_words: re.findall(r'\b[a-zA-Z]+\b', sentence.lower()) over the sentences
AllWords(sentences) ==
    Flatten([k \in 1..Len(sentences) |->
               FindAll(<<Wb, Plus("alpha"), Wb>>, Lower(sentences[k]), FlagsM)] \o <<>>)

\* ' '.join(sentences).lower()
JoinedLower(sentences) == Lower(Join(<<" ">>, sentences))

\* bigrams + trigrams of the joined text, each with two words or more
Phrases(txt) ==
    SelectSeq(FindAll(<<Wb, Plus("word"), Plus("space"), Plus("word"), Wb>>, txt, FlagsM)
                \o FindAll(<<Wb, Plus("word"), Plus("space"), Plus("word"),
                             Plus("space"), Plus("word"), Wb>>, txt, FlagsM),
              LAMBDA phrase : Len(SplitWords(phrase)) >= 2)

_analyze_vocabulary(profile, sentences) ==
    Bind(AllWords(sentences), LAMBDA all_words :
      Bind(Counter(all_words), LAMBDA word_counts :
      Bind(Phrases(JoinedLower(sentences)), LAMBDA phrases :
        [profile EXCEPT
           !.common_words =
               AddCounts(@, [w \in MostCommon(all_words, MostCommonLimit) \ StopWords
                               |-> word_counts[w]]),
           !.vocabulary_complexity =
               IF all_words # <<>>
               THEN Frac(Sum([k \in 1..Len(all_words) |-> Len(all_words[k])] \o <<>>),
                         Len(all_words))
               ELSE @,
           !.common_phrases = AddCounts(@, Counter(phrases)),
           !.key_order.common_words =
               AppendNew(@, SelectSeq(MostCommonOrder(all_words, MostCommonLimit),
                                      LAMBDA w : w \notin StopWords)),
           !.key_order.common_phrases = AppendNew(@, phrases)])))

passive_indicators == <<"was", "were", "been", "being", "be">>

transitions ==
    <<"however", "therefore", "moreover", "furthermore", "nevertheless",
      "meanwhile", "consequently", "thus", "hence", "accordingly">>

\* The phrases of personal_markers, each between word boundaries
personal_markers ==
    <<"i think", "i believe", "in my opinion", "i feel", "to me", "personally",
      "obviously", "clearly", "basically", "actually", "honestly">>

\* The counts of the transition words found in the text: those above 0
TransitionCounts(txt) ==
    [t \in { Chars(transitions[k]) : k \in DOMAIN transitions } |-> StrCount(txt, t)]

\* transition_words after a sample with these counts
TransitionWords(profile, counts) ==
    Update(profile.transition_words,
           [t \in { x \in DOMAIN counts : counts[x] > 0 } |-> counts[t]])

_analyze_tone_and_style(profile, sentences) ==
    Bind(JoinedLower(sentences), LAMBDA txt :
      Bind(Len(SplitWords(txt)), LAMBDA total_words :
        [profile EXCEPT
           !.contractions_usage =
               IF total_words > 0
               THEN Frac(Len(FindAll(<<Wb, Plus("word"), Lit(<<"'">>), Plus("word"), Wb>>,
                                     txt, FlagsM)),
                         total_words)
               ELSE @,
           !.passive_voice_usage =
               IF Len(sentences) > 0
               THEN Frac(Sum([k \in DOMAIN passive_indicators |->
                                StrCount(txt, <<" ">> \o Chars(passive_indicators[k]) \o <<" ">>)]),
                         Len(sentences))
               ELSE @,
           !.transition_words = TransitionWords(profile, TransitionCounts(txt)),
           !.key_order.transition_words =
               AppendNew(@, SelectSeq([k \in DOMAIN transitions |-> Chars(transitions[k])],
                                      LAMBDA t : StrCount(txt, t) > 0)),
           !.personal_expressions =
               @ \o Flatten([k \in DOMAIN personal_markers |->
                               FindAll(<<Wb, Lit(Chars(personal_markers[k])), Wb>>,
                                       txt, FlagsM)])]))

\* The characters counted as punctuation
PunctuationMarks ==
    {".", ",", ";", ":", "!", "?", "-", "(", ")", "[", "]", "{", "}", "\"", "'", "/"}

\* Over the raw text: the share of every punctuation mark that occurs
_analyze_punctuation(profile, txt) ==
    [profile EXCEPT
       !.punctuation_patterns =
           IF Len(txt) > 0
           THEN Update(@, [c \in Range(txt) \cap PunctuationMarks |->
                             Frac(Cardinality({i \in DOMAIN txt : txt[i] = c}), Len(txt))])
           ELSE @,
       !.key_order.punctuation_patterns =
           AppendNew(@, SelectSeq(txt, LAMBDA c : c \in PunctuationMarks))]

_analyze_paragraph_structure(profile, paragraphs) ==
    [profile EXCEPT !.paragraph_lengths = @ \o WordCounts(paragraphs)]

\* analyze_writing_sample past its guard: the five analyses, in order
AnalyzeSample(profile, txt) ==
    Bind(_clean_text(txt), LAMBDA cleaned_text :
    Bind(_extract_sentences(cleaned_text), LAMBDA sentences :
    Bind(_analyze_sentence_structure(profile, sentences), LAMBDA p1 :
    Bind(_analyze_vocabulary(p1, sentences), LAMBDA p2 :
    Bind(_analyze_tone_and_style(p2, sentences), LAMBDA p3 :
    Bind(_analyze_punctuation(p3, txt), LAMBDA p4 :
      _analyze_paragraph_structure(p4, _extract_paragraphs(cleaned_text))))))))

\* A blank sample answered with the profile of a new analyzer
ResetOnBlankSample(profile, txt) ==
    IF Strip(txt) = <<>> THEN EmptyProfile ELSE AnalyzeSample(profile, txt)

\* The profile after analyze_writing_sample(text)
analyze_writing_sample(profile, txt) ==
    IF Strip(txt) = <<>> THEN profile ELSE AnalyzeSample(profile, txt)

(***************************************************************************)
(* The documents given to clean_text: up to MaxLines lines, separated by a *)
(* newline or by a blank line (the last of Lines is a list item after an   *)
(* empty line).                                                            *)
(***************************************************************************)
MaxLines == 3

Fence == <<BackTick, BackTick, BackTick>>

Lines ==
    { Chars("As an AI x"),
      Chars("foo as an AI"),
      Chars("Solar."),
      Chars("Wind."),
      Chars("# **b**"),
      Fence,
      Chars("Not medical advice. Always consult a doctor."),
      Chars("(As an AI x)As an AI y"),
      Chars("\n- w") }

Seps == { <<NL>>, <<NL, NL>> }

RECURSIVE JoinLines(_, _, _)
JoinLines(ls, ss, n) ==
    IF n = 1 THEN ls[1] ELSE JoinLines(ls, ss, n - 1) \o ss[n - 1] \o ls[n]

Documents ==
    UNION { { JoinLines(ls, ss, n) : ls \in [1..n -> Lines], ss \in [1..(n - 1) -> Seps] }
            : n \in 1..MaxLines }

\* No file at the profile path; a file whose content is not JSON
Missing == [ type |-> "missing" ]

Malformed == [ type |-> "malformed" ]

\* Python's None
None == [ type |-> "none" ]

\* No request of the web application
NoApp ==
    /\ backend = None
    /\ response = None
    /\ personas_file = Missing
    /\ uuids = 0
    /\ requests = <<>>

\* Nothing persisted, nothing humanized
Unused ==
    /\ profile_file = Missing
    /\ raised = FALSE
    /\ summary = None
    /\ loaded_summary = None
    /\ humanized = <<>>
    /\ draws = None
    /\ NoApp

\* phase: "new" | "cleaned" | "recleaned"
Init ==
    /\ text \in Documents
    /\ cleaned = <<>>
    /\ phase = "new"
    /\ style_profile = EmptyProfile
    /\ samples = <<>>
    /\ Unused

\* cleaned = cleaner.clean_text(text)
CleanText ==
    /\ phase = "new"
    /\ cleaned' = clean_text(text)
    /\ phase' = "cleaned"
    /\ UNCHANGED <<text, style_profile, samples, persistVars, humanizeVars, appVars>>

\* A second run, on the output of the first: clean_text(cleaned)
CleanAgain ==
    /\ phase = "cleaned"
    /\ text' = cleaned
    /\ cleaned' = clean_text(cleaned)
    /\ phase' = "recleaned"
    /\ UNCHANGED <<style_profile, samples, persistVars, humanizeVars, appVars>>

Next == CleanText \/ CleanAgain

Spec == Init /\ [][Next]_vars

(***************************************************************************)
(* The analyzer: up to MaxCalls calls of analyze_writing_sample on one     *)
(* WritingStyleAnalyzer; samples is the list of the texts analyzed so far. *)
(***************************************************************************)
MaxCalls == 3

Samples ==
    { Chars("The cat sat. It was good."),
      Chars("The dog ran home. However, I think it's fine!"),
      Chars("However, thus.\n\nThus we go however far."),
      Chars("He was sad and she was mad, clearly."),
      Chars(" "),
      Chars("?!") }

\* phase: "profile"
InitProfile ==
    /\ text = <<>>
    /\ cleaned = <<>>
    /\ phase = "profile"
    /\ style_profile = EmptyProfile
    /\ samples = <<>>
    /\ Unused

\* analyzer.analyze_writing_sample(sample)
AnalyzeWritingSample ==
    \E sample \in Samples :
        /\ phase = "profile"
        /\ Len(samples) < MaxCalls
        /\ style_profile' = analyze_writing_sample(style_profile, sample)
        /\ samples' = Append(samples, sample)
        /\ UNCHANGED <<cleanerVars, phase, persistVars, humanizeVars, appVars>>

NextProfile == AnalyzeWritingSample

SpecProfile == InitProfile /\ [][NextProfile]_vars

(***************************************************************************)
(* The persisted profile.  json.dump writes the profile as a JSON          *)
(* document: a tree of objects (their members in the insertion order of    *)
(* the dictionary), arrays, numbers and strings; json.load reads such a    *)
(* tree back into dictionaries and lists.                                  *)
(***************************************************************************)
\* A JSON value: type is "number" or "string" and value the number or the
\* string, or "array" and value the list of the items, or "object" and
\* value the list of the members, each a pair of a name and a JSON value
Json(type, value) == [ type |-> type, value |-> value ]

\* The keys of style_profile, in the order __init__ inserts them
ProfileKeys ==
    << "sentence_lengths", "paragraph_lengths", "common_words", "common_phrases",
       "punctuation_patterns", "sentence_starters", "transition_words",
       "tone_indicators", "contractions_usage", "passive_voice_usage",
       "avg_sentence_length", "vocabulary_complexity", "personal_expressions" >>

\* The JSON value of one entry of the profile
DumpValue(profile, name) ==
    IF name \in DOMAIN profile.key_order
    THEN Bind(profile.key_order[name], LAMBDA order :
           Json("object", [k \in DOMAIN order |->
                             <<order[k], Json("number", profile[name][order[k]])>>] \o <<>>))
    ELSE IF name \in {"sentence_lengths", "paragraph_lengths"}
    THEN Json("array", [k \in DOMAIN profile[name] |->
                          Json("number", profile[name][k])] \o <<>>)
    ELSE IF name = "personal_expressions"
    THEN Json("array", [k \in DOMAIN profile[name] |->
                          Json("string", profile[name][k])] \o <<>>)
    ELSE Json("number", profile[name])

\* json.dump(self.style_profile, f, indent=2)
json_dump(profile) ==
    Json("object", [k \in DOMAIN ProfileKeys |->
                      <<ProfileKeys[k], DumpValue(profile, ProfileKeys[k])>>] \o <<>>)

\* The names of the members of a JSON object, in the order of the document
MemberNames(doc) == [k \in DOMAIN doc.value |-> doc.value[k][1]] \o <<>>

\* The Python value of a JSON value: a dictionary for an object (a later
\* member of the same name wins), a list for an array
RECURSIVE Decode(_)
Decode(doc) ==
    IF doc.type = "object"
    THEN [name \in Range(MemberNames(doc)) |->
            Decode(doc.value[Last(1, Len(doc.value),
                                  LAMBDA k : doc.value[k][1] = name)][2])]
    ELSE IF doc.type = "array"
    THEN [k \in DOMAIN doc.value |-> Decode(doc.value[k])] \o <<>>
    ELSE doc.value

\* json.load(f): the dictionaries of the document, each with its key order
json_load(doc) ==
    Bind(Decode(doc), LAMBDA loaded :
      [name \in DOMAIN loaded \cup {"key_order"} |->
         IF name = "key_order"
         THEN [field \in { doc.value[k][1] :
                              k \in { j \in DOMAIN doc.value :
                                        doc.value[j][2].type = "object" } } |->
                 AppendNew(<<>>, MemberNames(
                     doc.value[Last(1, Len(doc.value),
                                    LAMBDA k : doc.value[k][1] = field)][2]))]
         ELSE loaded[name]])

\* round(x, 1) of a quotient that is not negative: the nearest tenth, a tie
\* going to the even one.  A tie is a quotient of denominator 4 or 20 in
\* lowest terms; those of denominator 4 are floats exactly, and no profile
\* of the specifications below has a quotient of denominator 20.
Round1(x) ==
    Bind((10 * x.num) \div x.den, LAMBDA tenths :
      Bind((10 * x.num) % x.den, LAMBDA rest :
        IF 2 * rest > x.den \/ (2 * rest = x.den /\ tenths % 2 = 1)
        THEN Frac(tenths + 1, 10)
        ELSE Frac(tenths, 10)))

\* dict(Counter(counts).most_common(n)): the n keys of the highest counts,
\* of equal counts the key inserted first
TopCounts(counts, order, n) ==
    Bind([x \in DOMAIN counts |->
            Cardinality({ y \in DOMAIN counts :
                            \/ counts[y] > counts[x]
                            \/ /\ counts[y] = counts[x]
                               /\ First(1, Len(order), LAMBDA k : order[k] = y)
                                    < First(1, Len(order), LAMBDA k : order[k] = x) })],
         LAMBDA rank : [x \in { y \in DOMAIN counts : rank[y] < n } |-> counts[x]])

\* list(set(expressions)): the distinct expressions, in an order the
\* language leaves open (it follows the hash values of the strings, which
\* change from one interpreter process to the next)
SetOrders(expressions) ==
    Bind(Range(expressions), LAMBDA distinct :
      { order \in [1..Cardinality(distinct) -> distinct] : Range(order) = distinct })

\* get_style_summary, where set_order is the order of list(set(...))
get_style_summary(profile, set_order) ==
    [ avg_sentence_length  |-> Round1(profile.avg_sentence_length),
      vocab_complexity     |-> Round1(profile.vocabulary_complexity),
      contractions_rate    |-> Round1(Frac(profile.contractions_usage.num * 100,
                                           profile.contractions_usage.den)),
      top_words            |-> TopCounts(profile.common_words,
                                         profile.key_order.common_words, 10),
      top_phrases          |-> TopCounts(profile.common_phrases,
                                         profile.key_order.common_phrases, 5),
      common_starters      |-> TopCounts(profile.sentence_starters,
                                         profile.key_order.sentence_starters, 5),
      personal_expressions |-> SubSeq(set_order, 1,
                                      IF Len(set_order) < 10 THEN Len(set_order) ELSE 10) ]

\* load_profile(filepath) on an analyzer of profile `profile`: the profile
\* after the call and whether the call raised.  Only FileNotFoundError is
\* caught; the JSONDecodeError of a malformed file leaves the call.
load_profile(profile, file) ==
    IF file = Missing THEN [ style_profile |-> profile, raised |-> FALSE ]
    ELSE IF file = Malformed THEN [ style_profile |-> profile, raised |-> TRUE ]
    ELSE [ style_profile |-> json_load(file), raised |-> FALSE ]

(***************************************************************************)
(* Persistence: an analyzer analyzes samples, then either loads the file   *)
(* at the profile path, or saves its profile, summarizes it, and a new     *)
(* analyzer loads the file and summarizes in turn.                         *)
(* phase: "profile" | "saved" | "summarized" | "reloaded" | "loaded" |     *)
(* "raised"                                                                *)
(***************************************************************************)
InitPersist ==
    /\ text = <<>>
    /\ cleaned = <<>>
    /\ phase = "profile"
    /\ style_profile = EmptyProfile
    /\ samples = <<>>
    /\ profile_file \in {Missing, Malformed}
    /\ raised = FALSE
    /\ summary = None
    /\ loaded_summary = None
    /\ humanized = <<>>
    /\ draws = None
    /\ NoApp

\* analyzer.save_profile(path)
SaveProfile ==
    /\ phase = "profile"
    /\ profile_file' = json_dump(style_profile)
    /\ phase' = "saved"
    /\ UNCHANGED <<cleanerVars, style_profile, samples, raised, summary,
                   loaded_summary, humanizeVars, appVars>>

\* analyzer.load_profile(path)
LoadProfile ==
    /\ phase \in {"profile", "saved"}
    /\ style_profile' = load_profile(style_profile, profile_file).style_profile
    /\ raised' = load_profile(style_profile, profile_file).raised
    /\ phase' = IF raised' THEN "raised" ELSE "loaded"
    /\ UNCHANGED <<cleanerVars, samples, profile_file, summary, loaded_summary,
                   humanizeVars, appVars>>

\* summary = analyzer.get_style_summary()
GetStyleSummary ==
    /\ phase = "saved"
    /\ \E set_order \in SetOrders(style_profile.personal_expressions) :
           summary' = get_style_summary(style_profile, set_order)
    /\ phase' = "summarized"
    /\ UNCHANGED <<cleanerVars, style_profile, samples, profile_file, raised,
                   loaded_summary, humanizeVars, appVars>>

\* other = WritingStyleAnalyzer(); other.load_profile(path);
\* loaded_summary = other.get_style_summary()
LoadIntoNewAnalyzer ==
    /\ phase = "summarized"
    /\ LET other == load_profile(EmptyProfile, profile_file).style_profile
       IN  \E set_order \in SetOrders(other.personal_expressions) :
              loaded_summary' = get_style_summary(other, set_order)
    /\ phase' = "reloaded"
    /\ UNCHANGED <<cleanerVars, style_profile, samples, profile_file, raised,
                   summary, humanizeVars, appVars>>

NextPersist ==
    AnalyzeWritingSample \/ SaveProfile \/ LoadProfile \/ GetStyleSummary
        \/ LoadIntoNewAnalyzer

SpecPersist == InitPersist /\ [][NextPersist]_vars

(***************************************************************************)
(* TextHumanizer: the four stages of humanize_text over a profile, which   *)
(* is any dictionary (a key it lacks takes the default of the stage).      *)
(***************************************************************************)
\* self.style_profile.get(key, default)
ProfileGet(profile, key, default) ==
    IF key \in DOMAIN profile THEN profile[key] ELSE default

FlagsI == [i |-> TRUE, s |-> FALSE]     \* re.IGNORECASE

\* The words a sentence is split at
conjunctions == <<"and", "but", "however", "therefore", "moreover">>

\* split_points, as positions 1, 2, ... of the list words
SplitPoints(words) ==
    { k \in DOMAIN words :
        \E j \in DOMAIN conjunctions : Lower(words[k]) = Chars(conjunctions[j]) }

\* abs(x - len(words)//2) for the word at position k, whose index x is k - 1
MidDistance(words, k) ==
    IF k - 1 >= Len(words) \div 2 THEN k - 1 - Len(words) \div 2
    ELSE Len(words) \div 2 - (k - 1)

\* The first split point of the list (stands in for split_at below)
FirstSplitPoint(words) == CHOOSE k \in SplitPoints(words) : \A j \in SplitPoints(words) : k <= j

\* min(split_points, key=...): the split point nearest to the middle, of two
\* equally near ones the first
split_at(words) ==
    CHOOSE k \in SplitPoints(words) :
        \A j \in SplitPoints(words) :
            \/ MidDistance(words, k) < MidDistance(words, j)
            \/ MidDistance(words, k) = MidDistance(words, j) /\ k <= j

\* What one sentence adds to adjusted_sentences
AdjustedSentence(sentence, target_length) ==
    Bind(SplitWords(Strip(sentence)), LAMBDA words :
      IF /\ 2 * Len(words) * target_length.den > 3 * target_length.num
         /\ SplitPoints(words) # {}
      THEN Bind(split_at(words), LAMBDA k :
             << Strip(Join(<<" ">>, SubSeq(words, 1, k - 1))),
                Strip(Join(<<" ">>, SubSeq(words, k, Len(words)))) >>)
      ELSE << Strip(sentence) >>)

_adjust_sentence_length(profile, txt) ==
    Bind(ProfileGet(profile, "avg_sentence_length", Frac(15, 1)), LAMBDA target_length :
      Bind(SelectSeq(ReSplit(<<Plus("sent")>>, txt, FlagsM), LAMBDA x : Strip(x) # <<>>),
           LAMBDA sentences :
        Bind(Flatten([k \in DOMAIN sentences |->
                        AdjustedSentence(sentences[k], target_length)] \o <<>>),
             LAMBDA adjusted_sentences :
          Join(<<".", " ">>, adjusted_sentences)
              \o (IF adjusted_sentences # <<>> THEN <<".">> ELSE <<>>))))

contractions_map ==
    << <<"do not", "don't">>, <<"does not", "doesn't">>, <<"did not", "didn't">>,
       <<"will not", "won't">>, <<"would not", "wouldn't">>, <<"could not", "couldn't">>,
       <<"should not", "shouldn't">>, <<"cannot", "can't">>, <<"is not", "isn't">>,
       <<"are not", "aren't">>, <<"was not", "wasn't">>, <<"were not", "weren't">>,
       <<"have not", "haven't">>, <<"has not", "hasn't">>, <<"had not", "hadn't">> >>

complex_to_simple ==
    << <<"utilize", "use">>, <<"commence", "start">>, <<"terminate", "end">>,
       <<"demonstrate", "show">>, <<"facilitate", "help">>, <<"implement", "do">>,
       <<"acquire", "get">>, <<"substantial", "big">>, <<"eliminate", "remove">>,
       <<"approximately", "about">>, <<"consequently", "so">>, <<"furthermore", "also">> >>

\* r'\b' + phrase + r'\b'
WholeWord(phrase) == <<Wb, Lit(Chars(phrase)), Wb>>

\* for old, new in map.items(): text = re.sub(r'\b' + old + r'\b', new, text,
\* flags=re.IGNORECASE), after the first n entries of the map
RECURSIVE SubstituteAll(_, _, _)
SubstituteAll(map, txt, n) ==
    IF n = 0 THEN txt
    ELSE Bind(SubstituteAll(map, txt, n - 1), LAMBDA t :
           ReSub(WholeWord(map[n][1]), Chars(map[n][2]), t, FlagsI))

\* The first part of _inject_personal_style: the contractions
InjectContractions(profile, txt) ==
    Bind(ProfileGet(profile, "contractions_usage", Frac(0, 1)), LAMBDA contraction_rate :
      IF 10 * contraction_rate.num > contraction_rate.den
      THEN SubstituteAll(contractions_map, txt, Len(contractions_map))
      ELSE txt)

opinion_markers == <<"i think", "i believe", "in my opinion">>

\* if personal_expressions and len(text.split('.')) > 1
ExpressionApplies(profile, txt) ==
    /\ ProfileGet(profile, "personal_expressions", <<>>) # <<>>
    /\ Len(Split(txt, <<".">>)) > 1

\* sentence and not any(expr in sentence.lower() for expr in [...])
TakesExpression(sentence) ==
    /\ Strip(sentence) # <<>>
    /\ \A j \in DOMAIN opinion_markers :
          ~Contains(Lower(Strip(sentence)), Chars(opinion_markers[j]))

\* The random draws _inject_personal_style can make on the text txt (the
\* text with its contractions): None when it draws nothing, else whether
\* random.random() < 0.3, then idx = random.randint(0, len(sentences) - 2),
\* then random.choice(['think', 'believe'])
InjectionDraws(profile, txt) ==
    IF ~ExpressionApplies(profile, txt) THEN { None }
    ELSE Bind(Split(txt, <<".">>), LAMBDA sentences :
           { [inject |-> FALSE] }
             \cup UNION { IF TakesExpression(sentences[idx + 1])
                          THEN { [inject |-> TRUE, idx |-> idx, choice |-> c] :
                                   c \in {"think", "believe"} }
                          ELSE { [inject |-> TRUE, idx |-> idx] }
                          : idx \in 0..(Len(sentences) - 2) })

\* f"I think {sentence.lower()}" or f"In my opinion, {sentence.lower()}"
WithExpression(sentence, choice) ==
    (IF choice = "think" THEN Chars("I think ") ELSE Chars("In my opinion, "))
        \o Lower(Strip(sentence))

_inject_personal_style(profile, txt, d) ==
    Bind(InjectContractions(profile, txt), LAMBDA t :
      IF ~ExpressionApplies(profile, t) THEN t
      ELSE Bind(Split(t, <<".">>), LAMBDA sentences :
             Join(<<".", " ">>,
                  IF "choice" \in DOMAIN d
                  THEN [sentences EXCEPT ![d.idx + 1] = WithExpression(@, d.choice)]
                  ELSE sentences)))

_adjust_vocabulary(profile, txt) ==
    Bind(ProfileGet(profile, "vocabulary_complexity", Frac(5, 1)), LAMBDA target_complexity :
      IF target_complexity.num < 5 * target_complexity.den
      THEN SubstituteAll(complex_to_simple, txt, Len(complex_to_simple))
      ELSE txt)

\* re.sub(pattern, repl, txt) where the replacement is made from the groups
\* of the match: Repl(m) is the replacement of the matched text m
ReSubGroups(re, txt, fl, Repl(_)) ==
    Bind(FindIter(re, txt, fl), LAMBDA sp :
      Flatten([k \in 1..(2 * Len(sp) + 1) |->
                 IF k % 2 = 1
                 THEN SubSeq(txt, IF k = 1 THEN 1 ELSE sp[(k - 1) \div 2][2],
                                  IF k = 2 * Len(sp) + 1 THEN Len(txt)
                                  ELSE sp[(k + 1) \div 2][1] - 1)
                 ELSE Repl(SubSeq(txt, sp[k \div 2][1], sp[k \div 2][2] - 1))] \o <<>>))

\* r'\bis being\s+(\w+ed)\b'
IsBeingPattern ==
    <<Wb, Lit(Chars("is being")), Plus("space"), Plus("word"), Lit(Chars("ed")), Wb>>

\* re.sub(r'\bis being\s+(\w+ed)\b', r'is \1ing', text): group 1 is the third
\* word of the match
IsBeingToActive(txt) ==
    ReSubGroups(IsBeingPattern, txt, FlagsM,
                LAMBDA m : Chars("is ") \o SplitWords(m)[3] \o Chars("ing"))

\* re.sub(r'\bwas\s+(\w+ed)\s+by\s+(\w+)', r'\2 \1', text): the groups are
\* the second and the fourth word of the match
WasByToActive(txt) ==
    ReSubGroups(<<Wb, Lit(Chars("was")), Plus("space"), Plus("word"), Lit(Chars("ed")),
                  Plus("space"), Lit(Chars("by")), Plus("space"), Plus("word")>>,
                txt, FlagsM,
                LAMBDA m : SplitWords(m)[4] \o <<" ">> \o SplitWords(m)[2])

_adjust_tone(profile, txt) ==
    Bind(ProfileGet(profile, "passive_voice_usage", Frac(0, 1)), LAMBDA passive_usage :
      IF 10 * passive_usage.num < passive_usage.den
      THEN Bind(IsBeingToActive(txt), LAMBDA t : WasByToActive(t))
      ELSE txt)

\* humanize_text(text) with the draws d: the values its variable humanized
\* takes, the last of them returned (text alone when the text is blank)
humanize_text(profile, txt, d) ==
    IF Strip(txt) = <<>> THEN <<txt>>
    ELSE Bind(_adjust_sentence_length(profile, txt), LAMBDA h1 :
           Bind(_inject_personal_style(profile, h1, d), LAMBDA h2 :
             Bind(_adjust_vocabulary(profile, h2), LAMBDA h3 :
               <<txt, h1, h2, h3, _adjust_tone(profile, h3)>>)))

\* The draws a humanize_text call can make
HumanizeDraws(profile, txt) ==
    IF Strip(txt) = <<>> THEN { None }
    ELSE InjectionDraws(profile,
                        InjectContractions(profile, _adjust_sentence_length(profile, txt)))

(***************************************************************************)
(* One humanize_text call of a TextHumanizer made over a profile: that of  *)
(* a new analyzer, that of an analyzer after one sample, or a dictionary   *)
(* without keys.  The texts are a few fixed ones and every sentence of up  *)
(* to MaxWords words of SentenceWords.                                     *)
(* phase: "new" | "humanized"                                              *)
(***************************************************************************)
MaxWords == 4

SentenceWords == { Chars("a"), Chars("and"), Chars("But") }

StyleSamples ==
    { Chars("The dog ran home. However, I think it's fine!"),
      Chars("Go home. Be good."),
      Chars("The cat sat. It was good.") }

HumanizerTexts ==
    { Chars("I do not think that is correct."),
      Chars("We implement not only this."),
      Chars("The job is being processed now."),
      Chars("We met NASA. It was fun."),
      Chars("It was signed by Bob."),
      Chars("Stop! Go on?"),
      Chars("a however, a a and"),
      Chars("Stop.\n\nGo on."),
      Chars(" ") }
    \cup UNION { { Join(<<" ">>, ws) : ws \in [1..n -> SentenceWords] } : n \in 1..MaxWords }

InitHumanize ==
    /\ text \in HumanizerTexts
    /\ cleaned = <<>>
    /\ phase = "new"
    /\ \/ samples = <<>> /\ style_profile \in {EmptyDict, EmptyProfile}
       \/ \E sample \in StyleSamples :
             /\ samples = <<sample>>
             /\ style_profile = analyze_writing_sample(EmptyProfile, sample)
    /\ Unused

\* humanizer = TextHumanizer(style_profile); humanizer.humanize_text(text)
HumanizeText ==
    /\ phase = "new"
    /\ \E d \in HumanizeDraws(style_profile, text) :
          /\ humanized' = humanize_text(style_profile, text, d)
          /\ draws' = d
    /\ phase' = "humanized"
    /\ UNCHANGED <<cleanerVars, style_profile, samples, persistVars, appVars>>

NextHumanize == HumanizeText

SpecHumanize == InitHumanize /\ [][NextHumanize]_vars

(***************************************************************************)
(* The web application (app.py).  The generative backend is the ollama     *)
(* package: backend is None when its import failed (ollama = None), else   *)
(* a record [first, retry] of what the first and the second ollama.chat    *)
(* call of a request do: raise, or reply with a message content.           *)
(***************************************************************************)
\* An ollama.chat call raises
Raises == [ type |-> "raises" ]

\* An ollama.chat call returns a response with this message content
Reply(content) == [ type |-> "reply", content |-> content ]

\* A call that returned value; a call that raised
Returned(value) == [ raised |-> FALSE, value |-> value ]

Raised == [ raised |-> TRUE ]

\* str.startswith(prefix)
StartsWith(txt, prefix) ==
    Len(txt) >= Len(prefix) /\ SubSeq(txt, 1, Len(prefix)) = prefix

\* set(w for w in a.lower().split())
TokenSet(a) == Range(SplitWords(Lower(a)))

\* _token_similarity(a, b): the Jaccard similarity of the lowercased word sets
_token_similarity(a, b) ==
    Bind(TokenSet(a), LAMBDA A :
      Bind(TokenSet(b), LAMBDA B :
        IF A = {} \/ B = {} THEN Frac(0, 1)
        ELSE Frac(Cardinality(A \cap B), Cardinality(A \cup B))))

\* x > 0.9
TooSimilar(x) == 10 * x.num > 9 * x.den

\* generate_with_ollama(cleaned_text, ...) with the backend b: one try block
\* holds the first call, the similarity test and the retry call, and its
\* except clause raises RuntimeError for any exception
generate_with_ollama(cleaned_text, b) ==
    IF b = None THEN Raised
    ELSE IF b.first.type = "raises" THEN Raised
    ELSE Bind(Strip(b.first.content), LAMBDA content :
           IF content = <<>> THEN Returned(cleaned_text)
           ELSE IF TooSimilar(_token_similarity(cleaned_text, content))
           THEN IF b.retry.type = "raises" THEN Raised
                ELSE Bind(Strip(b.retry.content), LAMBDA content2 :
                       Returned(IF content2 # <<>> THEN content2 ELSE content))
           ELSE Returned(content))

\* is_generation_command(text): whether the stripped text starts with
\* '@gen ' or '@generate ' in any case, and the prompt after the prefix
generation_prefixes == << Chars("@gen "), Chars("@generate ") >>

is_generation_command(txt) ==
    Bind(Strip(txt), LAMBDA stripped :
      Bind(SelectSeq(generation_prefixes,
                     LAMBDA prefix : StartsWith(Lower(stripped), prefix)), LAMBDA found :
        IF found = <<>> THEN [ is_gen |-> FALSE, prompt |-> <<>> ]
        ELSE [ is_gen |-> TRUE,
               prompt |-> Strip(SubSeq(stripped, Len(found[1]) + 1, Len(stripped))) ]))

\* generate_content_with_ollama(prompt, ...) without a persona: one call, no
\* retry
generate_content_with_ollama(prompt, b) ==
    IF b = None THEN Raised
    ELSE IF b.first.type = "raises" THEN Raised
    ELSE Bind(Strip(b.first.content), LAMBDA content :
           Returned(IF content # <<>> THEN content
                    ELSE Chars("Sorry, I couldn't generate content for that request.")))

\* Whether the except clause of scottify_text runs the heuristic humanizer
RunsHumanizer(profile, cleaned_text, b) ==
    /\ generate_with_ollama(cleaned_text, b).raised
    /\ ProfileGet(profile, "avg_sentence_length", Frac(0, 1)).num > 0

\* The draws a /scottify request makes: those of its humanize_text call
ScottifyDraws(profile, input_text, humanize, b) ==
    IF Strip(input_text) = <<>> \/ is_generation_command(input_text).is_gen \/ ~humanize
    THEN { None }
    ELSE Bind(clean_text(input_text), LAMBDA cleaned_text :
           IF RunsHumanizer(profile, cleaned_text, b)
           THEN HumanizeDraws(profile, cleaned_text)
           ELSE { None })

\* scottify_text: the response to {'text': input_text, 'humanize': humanize}
\* with the module-level analyzer holding profile, an empty persona store,
\* the backend b and the draws d (the members of the response computed from
\* the formatter, the summary and the persona are left out)
scottify_text(profile, input_text, humanize, b, d) ==
    IF Strip(input_text) = <<>> THEN [ status |-> 400 ]
    ELSE IF is_generation_command(input_text).is_gen
    THEN Bind(generate_content_with_ollama(is_generation_command(input_text).prompt, b),
              LAMBDA generated :
                IF generated.raised THEN [ status |-> 500, is_generation |-> TRUE ]
                ELSE [ status |-> 200, is_generation |-> TRUE,
                       generated |-> generated.value ])
    ELSE Bind(clean_text(input_text), LAMBDA cleaned_text :
           Bind(IF humanize THEN generate_with_ollama(cleaned_text, b) ELSE Raised,
                LAMBDA rewrite :
             [ status |-> 200,
               cleaned |-> cleaned_text,
               humanized |->
                   IF ~humanize THEN cleaned_text
                   ELSE IF ~rewrite.raised THEN rewrite.value
                   ELSE IF RunsHumanizer(profile, cleaned_text, b)
                   THEN Bind(humanize_text(profile, cleaned_text, d), LAMBDA h : h[Len(h)])
                   ELSE cleaned_text,
               humanization_applied |-> humanize,
               humanization_engine |->
                   IF ~humanize THEN "none"
                   ELSE IF ~rewrite.raised THEN "ollama" ELSE "local" ]))

(***************************************************************************)
(* One /scottify request on a server whose analyzer holds a new profile or *)
(* that of one analyzed sample.                                            *)
(* phase: "new" | "responded"                                              *)
(***************************************************************************)
ScottifyTexts ==
    { Chars("Solar power."),
      Chars("As an AI x\nSolar power."),
      Chars("We implement not only this."),
      Chars("It was fun and we met NASA however late."),
      Chars("@Gen a poem"),
      Chars(" ") }

Replies ==
    { <<>>,
      Chars(" solar POWER.\n"),
      Chars("Sun power now.") }

Outcomes == { Raises } \cup { Reply(content) : content \in Replies }

Backends == { None } \cup [ first : Outcomes, retry : Outcomes ]

InitScottify ==
    /\ text \in ScottifyTexts
    /\ cleaned = <<>>
    /\ phase = "new"
    /\ \/ samples = <<>> /\ style_profile = EmptyProfile
       \/ \E sample \in StyleSamples :
             /\ samples = <<sample>>
             /\ style_profile = analyze_writing_sample(EmptyProfile, sample)
    /\ profile_file = Missing
    /\ raised = FALSE
    /\ summary = None
    /\ loaded_summary = None
    /\ humanized = <<>>
    /\ draws = None
    /\ backend \in Backends
    /\ response = None
    /\ personas_file = Missing
    /\ uuids = 0
    /\ requests = <<>>

\* POST /scottify with {'text': text, 'humanize': humanize}
ScottifyText ==
    /\ phase = "new"
    /\ \E humanize \in BOOLEAN :
         \E d \in ScottifyDraws(style_profile, text, humanize, backend) :
            /\ response' = scottify_text(style_profile, text, humanize, backend, d)
            /\ draws' = d
    /\ phase' = "responded"
    /\ UNCHANGED <<cleanerVars, style_profile, samples, persistVars, humanized,
                   backend, personas_file, uuids, requests>>

NextScottify == ScottifyText

SpecScottify == InitScottify /\ [][NextScottify]_vars

(***************************************************************************)
(* The persona store: the dictionary {'personas': [...], 'active_id': id}  *)
(* in the file at PERSONAS_PATH.  A persona is kept as its id and name     *)
(* (description, voice, tone and rules are copied as the name is).  Every  *)
(* handler loads the file, changes the dictionary and saves it; it is      *)
(* modelled by its response status and the file it leaves.                 *)
(***************************************************************************)
\* str(uuid.uuid4()), the n-th id issued
Uuid(n) == [ uuid |-> n ]

\* load_personas(): the saved dictionary, or an empty store when there is
\* no file
load_personas(file) ==
    IF file = Missing THEN [ personas |-> <<>>, active_id |-> None ] ELSE file

\* [p.get('id') for p in data['personas']]
PersonaIds(data) == { data.personas[k].id : k \in DOMAIN data.personas }

\* POST /personas with {'name': payload_name}, uuid4 issuing pid
create_persona(file, pid, payload_name) ==
    Bind(Strip(payload_name), LAMBDA name :
      IF name = <<>> THEN [ status |-> 400, file |-> file ]
      ELSE Bind(load_personas(file), LAMBDA data :
             [ status |-> 200,
               file |-> [ personas |-> Append(data.personas, [ id |-> pid, name |-> name ]),
                          active_id |-> IF data.active_id = None THEN pid
                                        ELSE data.active_id ] ]))

\* PUT /personas/<pid> with {'name': payload_name}
update_persona(file, pid, payload_name) ==
    Bind(load_personas(file), LAMBDA data :
      IF pid \notin PersonaIds(data) THEN [ status |-> 404, file |-> file ]
      ELSE Bind(First(1, Len(data.personas), LAMBDA k : data.personas[k].id = pid),
                LAMBDA found :
             [ status |-> 200,
               file |-> [ data EXCEPT !.personas[found].name = Strip(payload_name) ] ]))

\* delete_persona without the reassignment of active_id
DeleteKeepingActive(file, pid) ==
    Bind(load_personas(file), LAMBDA data :
      Bind(SelectSeq(data.personas, LAMBDA p : p.id # pid), LAMBDA new_list :
        IF Len(new_list) = Len(data.personas) THEN [ status |-> 404, file |-> file ]
        ELSE [ status |-> 200,
               file |-> [ personas |-> new_list, active_id |-> data.active_id ] ]))

\* DELETE /personas/<pid>
delete_persona(file, pid) ==
    Bind(load_personas(file), LAMBDA data :
      Bind(SelectSeq(data.personas, LAMBDA p : p.id # pid), LAMBDA new_list :
        IF Len(new_list) = Len(data.personas) THEN [ status |-> 404, file |-> file ]
        ELSE [ status |-> 200,
               file |-> [ personas |-> new_list,
                          active_id |-> IF data.active_id = pid
                                        THEN IF new_list # <<>> THEN new_list[1].id ELSE None
                                        ELSE data.active_id ] ]))

\* POST /personas/activate with {'id': pid}
activate_persona(file, pid) ==
    Bind(load_personas(file), LAMBDA data :
      IF pid \notin PersonaIds(data) THEN [ status |-> 404, file |-> file ]
      ELSE [ status |-> 200, file |-> [ data EXCEPT !.active_id = pid ] ])

(***************************************************************************)
(* Persona requests handled one at a time, from an empty store.  requests  *)
(* holds the request answered last, response its status.                   *)
(* phase: "personas"                                                       *)
(***************************************************************************)
MaxPersonas == 3

PersonaNames == { Chars("Ann"), Chars(" Bo "), Chars(" ") }

\* The ids a request can name: those issued, one never issued, and none
RequestIds == { Uuid(n) : n \in 1..(MaxPersonas + 1) } \cup { None }

InitPersonas ==
    /\ text = <<>>
    /\ cleaned = <<>>
    /\ phase = "personas"
    /\ style_profile = EmptyProfile
    /\ samples = <<>>
    /\ Unused

\* The handler answered request with result
Handled(request, result) ==
    /\ phase = "personas"
    /\ personas_file' = result.file
    /\ response' = [ status |-> result.status ]
    /\ requests' = << request >>
    /\ UNCHANGED <<cleanerVars, phase, style_profile, samples, persistVars,
                   humanizeVars, backend>>

CreatePersona ==
    \E name \in PersonaNames :
        /\ uuids < MaxPersonas
        /\ uuids' = IF Strip(name) = <<>> THEN uuids ELSE uuids + 1
        /\ Handled([ handler |-> "create_persona", name |-> name ],
                   create_persona(personas_file, Uuid(uuids + 1), name))

UpdatePersona ==
    \E pid \in RequestIds \ { None } : \E name \in PersonaNames :
        /\ UNCHANGED uuids
        /\ Handled([ handler |-> "update_persona", id |-> pid, name |-> name ],
                   update_persona(personas_file, pid, name))

DeletePersona ==
    \E pid \in RequestIds \ { None } :
        /\ UNCHANGED uuids
        /\ Handled([ handler |-> "delete_persona", id |-> pid ],
                   delete_persona(personas_file, pid))

ActivatePersona ==
    \E pid \in RequestIds :
        /\ UNCHANGED uuids
        /\ Handled([ handler |-> "activate_persona", id |-> pid ],
                   activate_persona(personas_file, pid))

NextPersonas == CreatePersona \/ UpdatePersona \/ DeletePersona \/ ActivatePersona

SpecPersonas == InitPersonas /\ [][NextPersonas]_vars

(***************************************************************************)
(* The server handling MaxRequests requests at once (app.run starts the    *)
(* threaded development server; the handlers take no lock).  A request is  *)
(* a record [handler, input, pc, data, response]: pc is its position, data *)
(* the dictionary it loaded, response its answer.  The handlers share the  *)
(* module-level analyzer (style_profile), the profile file and the persona *)
(* file.  A step runs from one access of the shared state to the next.     *)
(* pc of create_persona: "start" | "loaded" | "done"                       *)
(* pc of analyze_style: "start" | "analyzed" | "saved" | "done"            *)
(* phase: "serving"                                                        *)
(***************************************************************************)
MaxRequests == 2

NewRequests ==
    { [ handler |-> "create_persona", input |-> name, pc |-> "start",
        data |-> None, response |-> None ] : name \in { Chars("Ann"), Chars(" Bo ") } }
    \cup
    { [ handler |-> "analyze_style", input |-> sample, pc |-> "start",
        data |-> None, response |-> None ] : sample \in StyleSamples \cup { Chars(" ") } }

InitServer ==
    /\ text = <<>>
    /\ cleaned = <<>>
    /\ phase = "serving"
    /\ style_profile = EmptyProfile
    /\ samples = <<>>
    /\ profile_file = Missing
    /\ raised = FALSE
    /\ summary = None
    /\ loaded_summary = None
    /\ humanized = <<>>
    /\ draws = None
    /\ backend = None
    /\ response = None
    /\ personas_file = Missing
    /\ uuids = 0
    /\ requests \in [ 1..MaxRequests -> NewRequests ]

\* Request r is a handler call at pc
At(r, handler, pc) ==
    /\ phase = "serving"
    /\ requests[r].handler = handler
    /\ requests[r].pc = pc

\* create_persona up to data = load_personas()
CreatePersonaLoad(r) ==
    /\ At(r, "create_persona", "start")
    /\ requests' =
         IF Strip(requests[r].input) = <<>>
         THEN [ requests EXCEPT ![r].pc = "done", ![r].response = [ status |-> 400 ] ]
         ELSE [ requests EXCEPT ![r].pc = "loaded",
                                ![r].data = load_personas(personas_file) ]
    /\ UNCHANGED <<cleanerVars, phase, style_profile, samples, persistVars,
                   humanizeVars, backend, response, personas_file, uuids>>

\* create_persona from pid = str(uuid.uuid4()) to save_personas(data)
CreatePersonaSave(r) ==
    /\ At(r, "create_persona", "loaded")
    /\ uuids' = uuids + 1
    /\ LET pid == Uuid(uuids + 1)
           persona == [ id |-> pid, name |-> Strip(requests[r].input) ]
           data == [ personas |-> Append(requests[r].data.personas, persona),
                     active_id |-> IF requests[r].data.active_id = None THEN pid
                                   ELSE requests[r].data.active_id ]
       IN  /\ personas_file' = data
           /\ requests' = [ requests EXCEPT
                  ![r].pc = "done",
                  ![r].data = data,
                  ![r].response = [ status |-> 200, persona |-> persona,
                                    active_id |-> data.active_id ] ]
    /\ UNCHANGED <<cleanerVars, phase, style_profile, samples, persistVars,
                   humanizeVars, backend, response>>

\* analyze_style up to style_analyzer.analyze_writing_sample(writing_sample)
AnalyzeStyleAnalyze(r) ==
    /\ At(r, "analyze_style", "start")
    /\ IF Strip(requests[r].input) = <<>>
       THEN /\ requests' = [ requests EXCEPT ![r].pc = "done",
                                              ![r].response = [ status |-> 400 ] ]
            /\ UNCHANGED <<style_profile, samples>>
       ELSE /\ style_profile' = analyze_writing_sample(style_profile, requests[r].input)
            /\ samples' = Append(samples, requests[r].input)
            /\ requests' = [ requests EXCEPT ![r].pc = "analyzed" ]
    /\ UNCHANGED <<cleanerVars, phase, persistVars, humanizeVars, backend, response,
                   personas_file, uuids>>

\* style_analyzer.save_profile(STYLE_PROFILE_PATH)
AnalyzeStyleSave(r) ==
    /\ At(r, "analyze_style", "analyzed")
    /\ profile_file' = json_dump(style_profile)
    /\ requests' = [ requests EXCEPT ![r].pc = "saved" ]
    /\ UNCHANGED <<cleanerVars, phase, style_profile, samples, raised, summary,
                   loaded_summary, humanizeVars, backend, response, personas_file, uuids>>

\* summary = style_analyzer.get_style_summary(), and the response
AnalyzeStyleSummary(r) ==
    /\ At(r, "analyze_style", "saved")
    /\ \E set_order \in SetOrders(style_profile.personal_expressions) :
          requests' = [ requests EXCEPT
              ![r].pc = "done",
              ![r].response = [ status |-> 200,
                                style_summary |-> get_style_summary(style_profile, set_order) ] ]
    /\ UNCHANGED <<cleanerVars, phase, style_profile, samples, persistVars,
                   humanizeVars, backend, response, personas_file, uuids>>

NextServer ==
    \E r \in 1..MaxRequests :
        \/ CreatePersonaLoad(r)
        \/ CreatePersonaSave(r)
        \/ AnalyzeStyleAnalyze(r)
        \/ AnalyzeStyleSave(r)
        \/ AnalyzeStyleSummary(r)

SpecServer == InitServer /\ [][NextServer]_vars

(***************************************************************************)
(* Properties of clean_text.  In every state with phase # "new", cleaned   *)
(* is clean_text(text).                                                    *)
(***************************************************************************)
\* The paragraphs of a document: its blocks between blank lines
Paragraphs(txt) == Split(txt, <<NL, NL>>)

\* The last paragraph of a document
LastParagraph(txt) == Paragraphs(txt)[Len(Paragraphs(txt))]

\* A substring __FORMAT_<n>__ occurs in txt
HasPlaceholder(txt) ==
    ReSearch(<<Lit(Chars("__FORMAT_")), Plus("digit"), Lit(Chars("__"))>>, txt, FlagsM)

\* The fenced code blocks of a document: from a fence to the next fence,
\* over any number of lines
CodeBlocks(txt) ==
    LET sp == FindIter(<<Lit(Fence), Lazy("any"), Lit(Fence)>>, txt, FlagsIMS)
    IN  { SubSeq(txt, sp[k][1], sp[k][2] - 1) : k \in DOMAIN sp }

\* The text without its whitespace
NonSpace(txt) == SelectSeq(txt, LAMBDA c : c \notin SpaceSet)

\* No removal rule finds a match in txt
NoRuleMatches(txt) ==
    \A j \in DOMAIN watermark_patterns : ~ReSearch(watermark_patterns[j], txt, FlagsIMS)

\* An ordinary paragraph: neither a removal rule nor a markdown pattern finds
\* a match in it, standing after a blank line
Ordinary(p) ==
    /\ NoRuleMatches(<<NL, NL>> \o p)
    /\ \A j \in DOMAIN markdown_patterns : ~ReSearch(markdown_patterns[j], p, FlagsM)

\* The paragraph references AI identity
ReferencesAI(p) ==
    \/ Contains(Lower(p), Chars("as an ai"))
    \/ Contains(Lower(p), Chars("i'm an ai"))

\* The paragraph is a professional-advice disclaimer
AdviceDisclaimer(p) ==
    /\ Contains(Lower(p), Chars("advice"))
    /\ Contains(Lower(p), Chars("consult")) \/ Contains(Lower(p), Chars("seek professional"))

\* The paragraph begins with the phrase of one of the line-anchored rules
BeginsWithLinePhrase(p) ==
    \E j \in DOMAIN watermark_patterns :
        /\ watermark_patterns[j][1].t = "bol"
        /\ MatchAt(watermark_patterns[j], p, 1, FlagsIMS) # NoMatch

\* C1: for an input that holds no substring __FORMAT_<n>__, the output of
\* clean_text holds no placeholder token: every placeholder created while
\* shielding is replaced by its original span, nested spans included.
C1_PlaceholdersRestored ==
    (phase # "new" /\ ~HasPlaceholder(text)) => ~HasPlaceholder(cleaned)

\* C2: every fenced code block of the input occurs unchanged in the output
\* of clean_text, also when a line inside the block starts with a
\* disclaimer phrase.
C2_CodeBlockUnchanged ==
    phase # "new" => \A block \in CodeBlocks(text) : Contains(cleaned, block)

\* C3: when the first paragraph begins with "As an AI" and is followed by a
\* blank line and an ordinary paragraph, the output of clean_text holds no
\* "as an ai" (in any case) and holds the following paragraph verbatim.
C3_IntroductionRemoved ==
    ( /\ phase # "new"
      /\ Len(Paragraphs(text)) = 2
      /\ LitAt(Chars("As an AI "), Paragraphs(text)[1], 1, FlagsIMS)
      /\ Ordinary(Paragraphs(text)[2]) )
    => /\ ~Contains(Lower(cleaned), Chars("as an ai"))
       /\ Contains(cleaned, Paragraphs(text)[2])

\* C4: when the last of three or more paragraphs references AI identity or
\* professional advice, every earlier ordinary paragraph still occurs
\* verbatim in the output of clean_text: only the trailing paragraph goes.
C4_OnlyTrailingParagraphRemoved ==
    ( /\ phase # "new"
      /\ Len(Paragraphs(text)) >= 3
      /\ ReferencesAI(LastParagraph(text)) \/ AdviceDisclaimer(LastParagraph(text)) )
    => \A k \in 1..(Len(Paragraphs(text)) - 1) :
          Ordinary(Paragraphs(text)[k]) => Contains(cleaned, Paragraphs(text)[k])

\* C5: a trailing paragraph that ends the document and is a
\* professional-advice disclaimer does not occur in the output of
\* clean_text, also when it begins with none of the line-start phrases.
C5_TrailingAdviceRemoved ==
    ( /\ phase # "new"
      /\ Len(Paragraphs(text)) >= 2
      /\ AdviceDisclaimer(LastParagraph(text))
      /\ ~BeginsWithLinePhrase(LastParagraph(text)) )
    => ~Contains(cleaned, LastParagraph(text))

\* C6: clean_text is idempotent: cleaning the output of clean_text again
\* returns it unchanged.
C6_Idempotent == phase = "recleaned" => cleaned = text

\* C7: for an input on which no removal rule matches, markdown formatting
\* included, the output of clean_text differs from the input in whitespace
\* only.
C7_NoOpOnCleanInput ==
    (phase # "new" /\ NoRuleMatches(text)) => NonSpace(cleaned) = NonSpace(text)

\* C21: a line-anchored rule removes the text from its phrase up to the next
\* blank line, the next line that starts with a capital letter, or the end
\* of the text: a text that begins with such a phrase and has no blank line
\* and no later line starting with a capital letter is removed whole, its
\* continuation lines (starting with a lowercase letter or a non-letter)
\* included
C21_ContinuationLineRemoved ==
    ( /\ phase # "new"
      /\ BeginsWithLinePhrase(text)
      /\ ~Contains(text, <<NL, NL>>)
      /\ \A i \in 1..(Len(text) - 1) : text[i] = NL => text[i + 1] \notin UpperSet )
    => cleaned = <<>>

\* C22: for every input that is not blank, the output of clean_text holds no
\* run of three or more newlines, also after the shielded spans are restored
C22_NoThreeNewlines ==
    (phase # "new" /\ Strip(text) # <<>>) => ~Contains(cleaned, <<NL, NL, NL>>)

(***************************************************************************)
(* Properties of the style profile after the calls recorded in samples.    *)
(***************************************************************************)
\* The sentences analyze_writing_sample extracts from a sample: none when
\* the sample is blank
SentencesOf(sample) ==
    IF Strip(sample) = <<>> THEN <<>> ELSE _extract_sentences(_clean_text(sample))

\* Every sample analyzed so far holds a sentence
EverySampleHasSentence == \A k \in DOMAIN samples : SentencesOf(samples[k]) # <<>>

\* The per-sentence word counts of the samples ss, in call order
LengthsOfSamples(ss) ==
    Flatten([k \in 1..Len(ss) |-> WordCounts(SentencesOf(ss[k]))] \o <<>>)

\* C8: after calls on samples that each hold a sentence, sentence_lengths
\* is the concatenation, in call order, of every sample's per-sentence word
\* counts, and avg_sentence_length is the mean of the latest sample's
\* counts alone.
C8_LengthsAccumulateAvgLatest ==
    (samples # <<>> /\ EverySampleHasSentence)
    => /\ style_profile.sentence_lengths = LengthsOfSamples(samples)
       /\ style_profile.avg_sentence_length
            = Mean(WordCounts(SentencesOf(samples[Len(samples)])))

\* C8, its case: two or more samples with sentences have been analyzed and
\* the mean of the latest sample differs from the mean of all the lengths.
C8_Witness ==
    /\ Len(samples) >= 2
    /\ EverySampleHasSentence
    /\ Len(style_profile.sentence_lengths) > Len(WordCounts(SentencesOf(samples[Len(samples)])))
    /\ style_profile.avg_sentence_length # Mean(style_profile.sentence_lengths)

\* C9: the value sentence_starters holds for a first word is the number of
\* sentences, over all the samples analyzed, that start with that word.
C9_StartersCumulative ==
    \A w \in DOMAIN style_profile.sentence_starters :
        style_profile.sentence_starters[w]
          = Sum([k \in 1..Len(samples) |-> Get(Starters(SentencesOf(samples[k])), w)] \o <<>>)

\* C10: the value transition_words holds for each of the ten transition
\* words is the sum of its occurrence counts over all the samples analyzed.
C10_TransitionsCumulative ==
    \A t \in { Chars(transitions[k]) : k \in DOMAIN transitions } :
        Get(style_profile.transition_words, t)
          = Sum([k \in 1..Len(samples) |->
                   StrCount(JoinedLower(SentencesOf(samples[k])), t)] \o <<>>)

\* The whitespace-split tokens _analyze_tone_and_style counts for a sample
TokensOf(sample) == SplitWords(JoinedLower(SentencesOf(sample)))

\* C11: after analyze_writing_sample on a non-blank sample that yields no
\* word token, contractions_usage is 0, whatever an earlier sample left.
C11_ContractionsOfLatestSample ==
    ( /\ samples # <<>>
      /\ Strip(samples[Len(samples)]) # <<>>
      /\ TokensOf(samples[Len(samples)]) = <<>> )
    => style_profile.contractions_usage = Frac(0, 1)

\* The fraction lies in [0,1]
InUnitInterval(x) == 0 <= x.num /\ x.num <= x.den

\* C12: in every reachable profile, contractions_usage, passive_voice_usage
\* and every value of punctuation_patterns lie in [0,1].
C12_RatiosInUnitInterval ==
    /\ InUnitInterval(style_profile.contractions_usage)
    /\ InUnitInterval(style_profile.passive_voice_usage)
    /\ \A c \in DOMAIN style_profile.punctuation_patterns :
          InUnitInterval(style_profile.punctuation_patterns[c])

\* C20: analyze_writing_sample on an empty or whitespace-only sample leaves
\* every field of the profile as it was, in any reachable profile state.
C20_BlankSampleKeepsProfile ==
    [][ (Len(samples') = Len(samples) + 1 /\ Strip(samples'[Len(samples')]) = <<>>)
          => style_profile' = style_profile ]_vars

\* C20, its case: a blank sample was analyzed after a sample that had
\* filled the profile.
C20_Witness ==
    /\ Len(samples) >= 2
    /\ Strip(samples[Len(samples)]) = <<>>
    /\ style_profile.sentence_lengths # <<>>

(***************************************************************************)
(* Properties of the persisted profile, under SpecPersist                  *)
(***************************************************************************)
\* C13: load_profile never raises: when the file is missing or malformed,
\* the call returns and the analyzer keeps the profile it had before
C13_LoadNeverRaises ==
    [][ (phase' \in {"loaded", "raised"} /\ profile_file \in {Missing, Malformed})
            => (~raised' /\ style_profile' = style_profile) ]_vars

\* C14: round trip: the summary of a new analyzer that loaded the saved
\* file is identical to the summary of the analyzer that saved it
C14_RoundTripSummary ==
    phase = "reloaded" => loaded_summary = summary

(***************************************************************************)
(* Properties of humanize_text, under SpecHumanize.  In a state with       *)
(* phase = "humanized" and a text that is not blank, humanized holds the   *)
(* text, then the outputs of the four stages.                              *)
(***************************************************************************)
\* The fragments of the output of the sentence-length stage
FragmentsOf(out) ==
    IF out = <<>> THEN <<>> ELSE Split(SubSeq(out, 1, Len(out) - 1), <<".", " ">>)

\* The target length the stage works with
TargetOf(profile) == ProfileGet(profile, "avg_sentence_length", Frac(15, 1))

\* More words than 1.5 x target
ExceedsTarget(words, target) == 2 * Len(words) * target.den > 3 * target.num

\* C15: with a profile whose avg_sentence_length is absent or zero the target
\* is 15, so a text whose sentences have 22 words or fewer leaves the
\* sentence-length stage with its sentences unsplit
C15_DefaultTargetWhenZero ==
    ( /\ phase = "humanized"
      /\ Len(humanized) = 5
      /\ ProfileGet(style_profile, "avg_sentence_length", Frac(0, 1)).num = 0
      /\ \A k \in DOMAIN _extract_sentences(text) :
            Len(SplitWords(_extract_sentences(text)[k])) <= 22 )
    => humanized[2] = Join(<<".", " ">>, _extract_sentences(text))
                          \o (IF _extract_sentences(text) # <<>> THEN <<".">> ELSE <<>>)

\* The split points nearest to the middle of the sentence
ClosestSplitPoints(words) ==
    { k \in SplitPoints(words) :
        \A j \in SplitPoints(words) : MidDistance(words, k) <= MidDistance(words, j) }

\* The fragments frs are those of the sentences sents, where a sentence
\* that exceeds the target and has a split point gives exactly two
\* fragments, cut at a nearest split point, and any other sentence one
RECURSIVE FollowsSplitPolicy(_, _, _)
FollowsSplitPolicy(frs, sents, target) ==
    IF sents = <<>> THEN frs = <<>>
    ELSE Bind(SplitWords(Head(sents)), LAMBDA words :
           IF ExceedsTarget(words, target) /\ SplitPoints(words) # {}
           THEN /\ Len(frs) >= 2
                /\ \E k \in ClosestSplitPoints(words) :
                      /\ frs[1] = Join(<<" ">>, SubSeq(words, 1, k - 1))
                      /\ frs[2] = Join(<<" ">>, SubSeq(words, k, Len(words)))
                /\ FollowsSplitPolicy(SubSeq(frs, 3, Len(frs)), Tail(sents), target)
           ELSE /\ Len(frs) >= 1
                /\ FollowsSplitPolicy(Tail(frs), Tail(sents), target))

\* C16: a sentence of more words than 1.5 x target that holds and, but,
\* however, therefore or moreover as a word leaves the sentence-length stage
\* as exactly two fragments, the words before the conjunction nearest to
\* the middle and the words from it on, and no fragment is split again
C16_SplitAtNearestConjunction ==
    (phase = "humanized" /\ Len(humanized) = 5)
    => FollowsSplitPolicy(FragmentsOf(humanized[2]), _extract_sentences(text),
                          TargetOf(style_profile))

\* A sentence was split whose first conjunction is not the nearest to the
\* middle, under a target above 0
C16_Witness ==
    /\ phase = "humanized"
    /\ Len(humanized) = 5
    /\ TargetOf(style_profile).num > 0
    /\ \E k \in DOMAIN _extract_sentences(text) :
          LET words == SplitWords(_extract_sentences(text)[k])
          IN  /\ ExceedsTarget(words, TargetOf(style_profile))
              /\ SplitPoints(words) # {}
              /\ FirstSplitPoint(words) \notin ClosestSplitPoints(words)
    /\ Len(FragmentsOf(humanized[2])) = Len(_extract_sentences(text)) + 1

\* The sentence with its first letter lowercased and nothing else changed
LowerFirst(sentence) ==
    IF sentence = <<>> THEN <<>> ELSE <<LowerChar(Head(sentence))>> \o Tail(sentence)

\* C17: when an expression is injected, the sentence gets the prefix
\* 'I think ' or 'In my opinion, ' and only its first letter is lowercased
C17_OnlyFirstLetterLowered ==
    (phase = "humanized" /\ "choice" \in DOMAIN draws)
    => LET sentences == Split(InjectContractions(style_profile, humanized[2]), <<".">>)
           prefix == IF draws.choice = "think" THEN Chars("I think ")
                     ELSE Chars("In my opinion, ")
       IN  humanized[3] =
               Join(<<".", " ">>,
                    [sentences EXCEPT ![draws.idx + 1] = prefix \o LowerFirst(Strip(@))])

\* The verb without its last two letters
StripEd(verb) == SubSeq(verb, 1, Len(verb) - 2)

\* C18: when passive_voice_usage < 0.10 the tone stage rewrites every
\* 'is being X-ed' to 'is X-ing': the 'ed' of the verb is stripped before
\* 'ing' is added
C18_IsBeingStripsEd ==
    ( /\ phase = "humanized"
      /\ Len(humanized) = 5
      /\ 10 * ProfileGet(style_profile, "passive_voice_usage", Frac(0, 1)).num
            < ProfileGet(style_profile, "passive_voice_usage", Frac(0, 1)).den )
    => humanized[5] =
           WasByToActive(
               ReSubGroups(IsBeingPattern, humanized[4], FlagsM,
                           LAMBDA m : Chars("is ") \o StripEd(SplitWords(m)[3])
                                          \o Chars("ing")))

\* C19: when contractions_usage > 0.10 the text humanize_text returns holds
\* none of the 15 formal phrases as whole words, in any case of the letters
C19_NoFormalPhraseLeft ==
    ( /\ phase = "humanized"
      /\ Len(humanized) = 5
      /\ 10 * ProfileGet(style_profile, "contractions_usage", Frac(0, 1)).num
            > ProfileGet(style_profile, "contractions_usage", Frac(0, 1)).den )
    => \A j \in DOMAIN contractions_map :
          ~ReSearch(WholeWord(contractions_map[j][1]), humanized[5], FlagsI)

\* C26: when no expression is injected (the draw does not select injection,
\* or the chosen sentence already holds 'i think', 'i believe' or 'in my
\* opinion'), _inject_personal_style returns the text exactly as it is after
\* the contraction replacements
C26_NoInjectionNoChange ==
    (phase = "humanized" /\ Len(humanized) = 5 /\ "choice" \notin DOMAIN draws)
    => humanized[3] = InjectContractions(style_profile, humanized[2])

\* C27: every fragment between the '. ' separators of the output of the
\* sentence-length stage holds at least one word
C27_NoEmptyFragment ==
    (phase = "humanized" /\ Len(humanized) = 5)
    => \A k \in DOMAIN FragmentsOf(humanized[2]) :
          SplitWords(FragmentsOf(humanized[2])[k]) # <<>>

\* C28: the text humanize_text returns has as many paragraphs (blocks
\* between blank lines) as its input
C28_ParagraphsPreserved ==
    phase = "humanized"
    => Len(_extract_paragraphs(humanized[Len(humanized)])) = Len(_extract_paragraphs(text))

(***************************************************************************)
(* Properties of the /scottify request.  In every state with phase =       *)
(* "responded", response is the response to the request for text.          *)
(***************************************************************************)
\* The request was answered with a transformation of its text, humanization
\* requested
HumanizeRequested ==
    /\ phase = "responded"
    /\ "humanized" \in DOMAIN response
    /\ response.humanization_applied

\* C23: when humanization is requested and the backend rewrite fails or the
\* backend is absent, the humanized text of the response is the output of
\* humanize_text on the cleaned text
C23_FallbackRunsHumanizer ==
    (HumanizeRequested /\ generate_with_ollama(response.cleaned, backend).raised)
    => \E d \in HumanizeDraws(style_profile, response.cleaned) :
          response.humanized
              = Bind(humanize_text(style_profile, response.cleaned, d), LAMBDA h : h[Len(h)])

\* The first call replied with content that is too similar to the cleaned
\* text, and the retry call raised
RetryRaised ==
    /\ backend # None
    /\ backend.first.type = "reply"
    /\ Strip(backend.first.content) # <<>>
    /\ TooSimilar(_token_similarity(response.cleaned, Strip(backend.first.content)))
    /\ backend.retry.type = "raises"

\* C29: when the first call returns non-empty content and the retry call
\* raises, the rewrite is the first response: the request is answered by the
\* backend, with the content of the first call
C29_FirstResponseKept ==
    (HumanizeRequested /\ RetryRaised)
    => /\ response.humanization_engine = "ollama"
       /\ response.humanized = Strip(backend.first.content)

(***************************************************************************)
(* Properties of the persona store.                                        *)
(***************************************************************************)
\* C25: after any sequence of persona requests handled one at a time from
\* an empty store, active_id is None exactly when the store holds no
\* persona, and otherwise is the id of a persona in the store
C25_ActiveIdInStore ==
    phase = "personas"
    => Bind(load_personas(personas_file), LAMBDA data :
         IF data.personas = <<>> THEN data.active_id = None
         ELSE data.active_id \in PersonaIds(data))

\* C25: the last persona of a store that held several is deleted, and the
\* store is empty with no active id
C25_Witness ==
    /\ phase = "personas"
    /\ uuids >= 2
    /\ requests # <<>>
    /\ requests[1].handler = "delete_persona"
    /\ response.status = 200
    /\ load_personas(personas_file).personas = <<>>
    /\ load_personas(personas_file).active_id = None

(***************************************************************************)
(* Properties of the server under concurrent requests.                     *)
(***************************************************************************)
\* Request r was answered with status 200 by handler
Answered(r, handler) ==
    /\ phase = "serving"
    /\ requests[r].handler = handler
    /\ requests[r].pc = "done"
    /\ requests[r].response.status = 200

\* C24: the style summary an /analyze-style request returns has the
\* avg_sentence_length of the request's own sample (the mean sentence length
\* of that sample, whatever was analyzed before)
C24_SummaryOfOwnSample ==
    \A r \in DOMAIN requests :
        Answered(r, "analyze_style")
        => requests[r].response.style_summary.avg_sentence_length
             = Round1(analyze_writing_sample(EmptyProfile, requests[r].input).avg_sentence_length)

\* C30: once two concurrent create_persona requests have both completed, the
\* personas of both are in the store
C30_BothPersonasStored ==
    (\A r \in DOMAIN requests : Answered(r, "create_persona"))
    => \A r \in DOMAIN requests :
          requests[r].response.persona.id \in PersonaIds(load_personas(personas_file))

====
